---- MODULE Spec2Model ----
(***************************************************************************)
(* A model of jtarrio/k3: the post representation (post.go), the splitter   *)
(* of over-long posts (posts/split.go) and the plain-text importer          *)
(* (import/text/text.go).                                                   *)
(*                                                                          *)
(* Texts are sequences of one-character strings.  A Go *string is a         *)
(* sequence of length 0 (nil) or 1 (a pointer to that string).              *)
(***************************************************************************)
EXTENDS Integers, Sequences, FiniteSets, TLC

VARIABLES
    post,       \* the k3.Post being built, split or filled by Import
    lastOp,     \* the last operation called, with the arguments it was given
    options,    \* Split: the SplitOption list of the call
    splitOut,   \* Split: what the call returned (or that it panicked)
    text,       \* Import: the text being imported
    found,      \* Import: the sorted pool of candidates
    idx,        \* Import: index in found of the next candidate of the loop
    p,          \* Import: the cursor, the end of the last accepted candidate
    offered,    \* Import: the candidates handed to a resolver so far, with the answer
    clock,      \* Converter: its increasingClock
    feed,       \* Converter: the FeedPost of the last ToFeedPost
    convLog,    \* Converter: for each ToFeedPost so far, what the clock was asked
    mposter,    \* Multiposter: the multiposter (its threaded field)
    fake,       \* Multiposter: the client it publishes with
    pubPosts,   \* Multiposter: the posts given to Publish
    pubResult,  \* Multiposter: the PublishResult of the last Publish or Resume
    resumes,    \* Multiposter: the number of calls of Resume so far
    session,    \* Client: xrpc.Auth, the tokens the client holds
    wallTime,   \* Client: the time its clock shows
    serverCalls, \* Client: the calls the server got from the last GetAccessToken
    resolverCall, \* Resolvers: the last call of a resolver and its outcome
    htmlDoc     \* HTML importer: the nodes of the parsed document's body

vars == <<post, lastOp, options, splitOut, text, found, idx, p, offered,
          clock, feed, convLog, mposter, fake, pubPosts, pubResult, resumes,
          session, wallTime, serverCalls, resolverCall, htmlDoc>>

splitVars == <<options, splitOut>>
importVars == <<text, found, idx, p, offered>>
convVars == <<clock, feed, convLog>>
\* what the construction API, Split and Import leave alone
pubVars == <<mposter, fake, pubPosts, pubResult, resumes>>
clientVars == <<session, wallTime, serverCalls>>
resolveVars == <<resolverCall>>
htmlVars == <<htmlDoc>>
restVars == <<convVars, pubVars, clientVars, resolveVars, htmlVars>>

-----------------------------------------------------------------------------
(* Bounds of the model *)

\* SpecPost: the most blocks a post is grown to
MaxBlocks == 2
\* SpecPost: the most characters a post is grown to
MaxPostLen == 3

-----------------------------------------------------------------------------
(* Strings and pointers *)

NilPtr == <<>>
Ptr(s) == <<s>>
IsNil(a) == a = <<>>
Deref(a) == a[1]

\* unicode.IsSpace, on the characters the model uses
IsSpace(r) == r \in {" ", "\n"}

\* strings.Repeat, for a one-character string
Repeat(c, n) == [i \in 1..n |-> c]

\* the concatenation of a sequence of texts, in order
RECURSIVE Concat(_)
Concat(ts) == IF ts = <<>> THEN <<>> ELSE Head(ts) \o Concat(Tail(ts))

-----------------------------------------------------------------------------
(* post.go *)

\* PostBlock{Text: text}
PlainBlock(t) == [Text |-> t, Link |-> NilPtr, Mention |-> NilPtr, Tag |-> NilPtr]

WithLink(link, b) == [b EXCEPT !.Link = Ptr(link)]
WithMention(did, b) == [b EXCEPT !.Mention = Ptr(did)]
WithTag(tag, b) == [b EXCEPT !.Tag = Ptr(tag)]

\* ApplyFeature, were a feature to take the place of the ones set before it
ApplyFeatureAlone(f, b) ==
    CASE f[1] = "link" -> WithLink(f[2], PlainBlock(b.Text))
      [] f[1] = "mention" -> WithMention(f[2], PlainBlock(b.Text))
      [] f[1] = "tag" -> WithTag(f[2], PlainBlock(b.Text))

\* One BlockFeature option is a pair <<kind, value>>; it sets its own field only.
ApplyFeature(f, b) ==
    CASE f[1] = "link" -> WithLink(f[2], b)
      [] f[1] = "mention" -> WithMention(f[2], b)
      [] f[1] = "tag" -> WithTag(f[2], b)

\* NewBlock(text, features...): every feature is applied, in order.
RECURSIVE NewBlock(_, _)
NewBlock(t, features) ==
    IF features = <<>> THEN PlainBlock(t)
    ELSE ApplyFeature(features[Len(features)],
                      NewBlock(t, SubSeq(features, 1, Len(features) - 1)))

NewPost == [CreationTime |-> NilPtr, Blocks |-> <<>>, Languages |-> <<>>]

SetCreationTime(q, t) == [q EXCEPT !.CreationTime = Ptr(t)]

AddLanguage(q, lang) == [q EXCEPT !.Languages = Append(@, lang)]

emptyStrPtr(a) == IsNil(a) \/ Deref(a) = ""

\* a == b (the same pointer, whose string is then the same) or equal strings
eqStrPtr(a, b) == a = b

\* the block as AddBlock stores it: a feature pointing to "" becomes nil
Normalize(block) ==
    [block EXCEPT !.Link = IF emptyStrPtr(@) THEN NilPtr ELSE @,
                  !.Mention = IF emptyStrPtr(@) THEN NilPtr ELSE @,
                  !.Tag = IF emptyStrPtr(@) THEN NilPtr ELSE @]

\* SameFeatures, were the link the only feature compared
SameLink(a, b) == eqStrPtr(a.Link, b.Link)

SameFeatures(a, b) ==
    /\ eqStrPtr(a.Link, b.Link)
    /\ eqStrPtr(a.Mention, b.Mention)
    /\ eqStrPtr(a.Tag, b.Tag)

\* AddBlock without its early return for an empty text
AddBlockAlways(q, block) ==
    LET b == Normalize(block)
        n == Len(q.Blocks)
    IN  IF n = 0 THEN [q EXCEPT !.Blocks = Append(@, b)]
        ELSE IF SameFeatures(q.Blocks[n], b)
             THEN [q EXCEPT !.Blocks[n].Text = @ \o b.Text]
             ELSE [q EXCEPT !.Blocks = Append(@, b)]

AddBlock(q, block) ==
    LET b == Normalize(block)
        n == Len(q.Blocks)
    IN  IF Len(block.Text) = 0 THEN q
        ELSE IF n = 0 THEN [q EXCEPT !.Blocks = Append(@, b)]
        ELSE IF SameFeatures(q.Blocks[n], b)
             THEN [q EXCEPT !.Blocks[n].Text = @ \o b.Text]
             ELSE [q EXCEPT !.Blocks = Append(@, b)]

AddText(q, t) == AddBlock(q, NewBlock(t, <<>>))
AddLink(q, t, uri) == AddBlock(q, NewBlock(t, <<<<"link", uri>>>>))
AddMention(q, t, did) == AddBlock(q, NewBlock(t, <<<<"mention", did>>>>))
AddTag(q, t, tag) == AddBlock(q, NewBlock(t, <<<<"tag", tag>>>>))

BlockGraphemeLength(b) == Len(b.Text)

RECURSIVE SumLen(_)
SumLen(blocks) ==
    IF blocks = <<>> THEN 0 ELSE BlockGraphemeLength(Head(blocks)) + SumLen(Tail(blocks))

GetGraphemeLength(q) == SumLen(q.Blocks)

RECURSIVE BlocksText(_)
BlocksText(blocks) ==
    IF blocks = <<>> THEN <<>> ELSE Head(blocks).Text \o BlocksText(Tail(blocks))

GetPlainText(q) == BlocksText(q.Blocks)

-----------------------------------------------------------------------------
(* clock.go *)

\* Times are counted in half milliseconds, so that a clock can be read twice within
\* one millisecond.
Millisecond == 2

\* time.Time{}, the value of increasingClock.next before the first call
ZeroTime == 0

\* NewIncreasingClock(clock): &increasingClock{parent: clock}
NewIncreasingClock == [next |-> ZeroTime]

\* Now, were the time of the parent returned as it is read
NowOfParent(c, parentNow) ==
    [time |-> parentNow, clock |-> [c EXCEPT !.next = parentNow + Millisecond]]

\* increasingClock.Now(): the time returned and the clock after the call, parentNow
\* being what c.parent.Now() returns
Now(c, parentNow) ==
    LET now == IF parentNow < c.next THEN c.next ELSE parentNow
    IN  [time |-> now, clock |-> [c EXCEPT !.next = now + Millisecond]]

IdleConvert == clock = NewIncreasingClock /\ feed = <<>> /\ convLog = <<>>

\* nothing but the construction API, Split or Import has been called
IdlePublish ==
    /\ mposter = [threaded |-> FALSE]
    /\ fake = [posts |-> <<>>, failAfter |-> -1, calls |-> <<>>]
    /\ pubPosts = <<>>
    /\ pubResult = <<>>
    /\ resumes = 0

IdleClient == session = NilPtr /\ wallTime = 0 /\ serverCalls = <<>>

IdleResolve ==
    resolverCall = [resolver |-> "none", input |-> <<>>, panicked |-> FALSE, out |-> NilPtr]

IdleHtml == htmlDoc = <<>>

IdleRest == IdleConvert /\ IdlePublish /\ IdleClient /\ IdleResolve /\ IdleHtml

-----------------------------------------------------------------------------
(* SpecPost: a post grown through the construction API *)

PostTexts == {<<>>, <<"a">>, <<"b", " ">>}
Uris == {"", "u1", "u2"}
Dids == {"", "d1"}
Tags == {"", "t1"}
\* the feature lists handed to NewBlock: none, one, two or all three features
FeatureLists ==
    {<<>>, <<<<"link", "u1">>>>, <<<<"tag", "">>>>,
     <<<<"link", "u1">>, <<"mention", "d1">>>>,
     <<<<"mention", "d1">>, <<"tag", "t1">>>>,
     <<<<"link", "u2">>, <<"link", "u1">>>>,
     <<<<"link", "u1">>, <<"mention", "d1">>, <<"tag", "t1">>>>}

IdleSplit == options = <<>> /\ splitOut = <<>>
IdleImport == text = <<>> /\ found = <<>> /\ idx = 0 /\ p = 0 /\ offered = <<>>

InitPost ==
    /\ post = NewPost
    /\ lastOp = [op |-> "NewPost"]
    /\ IdleSplit
    /\ IdleImport
    /\ IdleRest

Room(q) == Len(q.Blocks) <= MaxBlocks /\ GetGraphemeLength(q) <= MaxPostLen

DoAddText ==
    \E t \in PostTexts :
        /\ Room(AddText(post, t))
        /\ post' = AddText(post, t)
        /\ lastOp' = [op |-> "AddText", text |-> t, features |-> <<>>]
        /\ UNCHANGED <<splitVars, importVars, restVars>>

DoAddLink ==
    \E t \in PostTexts, u \in Uris :
        /\ Room(AddLink(post, t, u))
        /\ post' = AddLink(post, t, u)
        /\ lastOp' = [op |-> "AddLink", text |-> t, features |-> <<<<"link", u>>>>]
        /\ UNCHANGED <<splitVars, importVars, restVars>>

DoAddMention ==
    \E t \in PostTexts, u \in Dids :
        /\ Room(AddMention(post, t, u))
        /\ post' = AddMention(post, t, u)
        /\ lastOp' = [op |-> "AddMention", text |-> t, features |-> <<<<"mention", u>>>>]
        /\ UNCHANGED <<splitVars, importVars, restVars>>

DoAddTag ==
    \E t \in PostTexts, u \in Tags :
        /\ Room(AddTag(post, t, u))
        /\ post' = AddTag(post, t, u)
        /\ lastOp' = [op |-> "AddTag", text |-> t, features |-> <<<<"tag", u>>>>]
        /\ UNCHANGED <<splitVars, importVars, restVars>>

DoAddBlock ==
    \E t \in PostTexts, fs \in FeatureLists :
        /\ Room(AddBlock(post, NewBlock(t, fs)))
        /\ post' = AddBlock(post, NewBlock(t, fs))
        /\ lastOp' = [op |-> "AddBlock", text |-> t, features |-> fs]
        /\ UNCHANGED <<splitVars, importVars, restVars>>

DoSetCreationTime ==
    \E t \in {1} :
        /\ post' = SetCreationTime(post, t)
        /\ lastOp' = [op |-> "SetCreationTime"]
        /\ UNCHANGED <<splitVars, importVars, restVars>>

DoAddLanguage ==
    \E lang \in {"es"} :
        /\ Len(post.Languages) < 1
        /\ post' = AddLanguage(post, lang)
        /\ lastOp' = [op |-> "AddLanguage"]
        /\ UNCHANGED <<splitVars, importVars, restVars>>

NextPost ==
    \/ DoAddText
    \/ DoAddLink
    \/ DoAddMention
    \/ DoAddTag
    \/ DoAddBlock
    \/ DoSetCreationTime
    \/ DoAddLanguage

SpecPost == InitPost /\ [][NextPost]_vars

-----------------------------------------------------------------------------
(* posts/split.go *)

maxPostGraphemeLength == 300

\* the longest word splitBlocks leaves in one piece
maxWordLength == 100

\* the first bound on the number of parts that groupBlocks assumes
firstMaxCount == 9

DigitChars == <<"0", "1", "2", "3", "4", "5", "6", "7", "8", "9">>

\* %d of fmt.Sprintf, for n >= 0
RECURSIVE Itoa(_)
Itoa(n) == IF n < 10 THEN <<DigitChars[n + 1]>>
           ELSE Itoa(n \div 10) \o <<DigitChars[(n % 10) + 1]>>

\* fmt.Sprintf("[%d/%d]", num, total)
DefaultPartFunction(num, total) ==
    <<"[">> \o Itoa(num) \o <<"/">> \o Itoa(total) \o <<"]">>

\* fmt.Sprintf("(Part %d of %d)", num, total), the custom function of the tests
TestPartFunction(num, total) ==
    <<"(", "P", "a", "r", "t", " ">> \o Itoa(num) \o <<" ", "o", "f", " ">>
        \o Itoa(total) \o <<")">>

\* strings.Repeat("*", total) + strconv.Itoa(num), a function of the caller whose
\* strings grow with the total
StarsPartFunction(num, total) == Repeat("*", total) \o Itoa(num)

\* a PartFunction value, applied
PartFunction(fn, num, total) ==
    CASE fn = "default" -> DefaultPartFunction(num, total)
      [] fn = "part" -> TestPartFunction(num, total)
      [] fn = "stars" -> StarsPartFunction(num, total)

\* len() of a Go string: every character of the model is one byte long
StrLen(s) == Len(s)

WithPrefix(fn) == [partFn |-> fn, prefix |-> TRUE]
WithSuffix(fn) == [partFn |-> fn, prefix |-> FALSE]

\* for _, option := range options { partFn, partPrefix = option() }
RECURSIVE ApplyOptions(_, _)
ApplyOptions(cur, opts) ==
    IF opts = <<>> THEN cur ELSE ApplyOptions(Head(opts), Tail(opts))

\* addBlock, were it to slice runes[start:end-1]
addBlockShort(st, block, end) ==
    IF st.panicked THEN st
    ELSE IF st.start > end THEN [st EXCEPT !.panicked = TRUE]
    ELSE [st EXCEPT !.output = Append(@, [block EXCEPT
                                  !.Text = SubSeq(block.Text, st.start + 1, end - 1)]),
                    !.start = end]

\* addBlock(end) of splitBlocks; runes[start:end] panics when start > end
addBlock(st, block, end) ==
    IF st.panicked THEN st
    ELSE IF st.start > end THEN [st EXCEPT !.panicked = TRUE]
    ELSE [st EXCEPT !.output = Append(@, [block EXCEPT
                                  !.Text = SubSeq(block.Text, st.start + 1, end)]),
                    !.start = end]

\* whether the iteration for runes[i] (i from 0) of splitBlocks calls addBlock
Fires(st, runes, i) ==
    IF st.isText THEN IsSpace(runes[i + 1]) \/ i - st.start >= maxWordLength
    ELSE ~IsSpace(runes[i + 1])

\* the body of the loop over the runes, for runes[i], when it calls addBlock
RuneStep(st, block, i) ==
    IF ~st.isText THEN [addBlock(st, block, i) EXCEPT !.isText = TRUE]
    ELSE IF IsSpace(block.Text[i + 1])
         THEN [addBlock(st, block, i) EXCEPT !.isText = FALSE]
         ELSE addBlock(addBlock(st, block, i), block, i)

\* the loop over the runes of one block, from index `from`: the iterations that
\* call nothing change nothing, so the loop goes on at the first i that fires
RECURSIVE RuneLoop(_, _, _)
RuneLoop(st, block, from) ==
    LET runes == block.Text
        rest == from .. (Len(runes) - 1)
    IN  IF st.panicked \/ ~(\E i \in rest : Fires(st, runes, i)) THEN st
        ELSE LET i0 == CHOOSE i \in rest :
                           /\ Fires(st, runes, i)
                           /\ \A j \in from .. (i - 1) : ~Fires(st, runes, j)
             IN  RuneLoop(RuneStep(st, block, i0), block, i0 + 1)

\* the loop over the blocks: isText and start are declared before it and live on
RECURSIVE BlockLoop(_, _)
BlockLoop(st, blocks) ==
    IF blocks = <<>> \/ st.panicked THEN st
    ELSE LET block == Head(blocks)
         IN  BlockLoop(addBlock(RuneLoop(st, block, 0), block, Len(block.Text)),
                       Tail(blocks))

splitBlocks(blocks) ==
    BlockLoop([output |-> <<>>, isText |-> TRUE, start |-> 0, panicked |-> FALSE],
              blocks)

\* startGroup(i) of groupBlocks
startGroup(g, blocks, i, fn, maxCount) ==
    LET n == Len(g.outGroups) + 1
        prefixSize == StrLen(PartFunction(fn, n, maxCount)) + 1
    IN  [g EXCEPT !.group = <<blocks[i + 1]>>,
                  !.groupLen = BlockGraphemeLength(blocks[i + 1]) + prefixSize]

\* for i := 2; i < len(blocks); i += 2 { ... }
RECURSIVE PackLoop(_, _, _, _, _)
PackLoop(g, blocks, i, fn, maxCount) ==
    IF i >= Len(blocks) THEN g
    ELSE LET bl == BlockGraphemeLength(blocks[i + 1])
         IN  IF g.groupLen + bl > maxPostGraphemeLength
             THEN PackLoop(startGroup([g EXCEPT !.outGroups = Append(@, g.group)],
                                      blocks, i, fn, maxCount),
                           blocks, i + 2, fn, maxCount)
             ELSE PackLoop([g EXCEPT !.groupLen = @ + BlockGraphemeLength(blocks[i]) + bl,
                                     !.group = @ \o <<blocks[i], blocks[i + 1]>>],
                           blocks, i + 2, fn, maxCount)

\* one pass of the outer loop of groupBlocks: the groups packed under maxCount
Pack(blocks, fn, maxCount) ==
    LET g == PackLoop(startGroup([outGroups |-> <<>>, group |-> <<>>, groupLen |-> 0],
                                 blocks, 0, fn, maxCount),
                      blocks, 2, fn, maxCount)
    IN  Append(g.outGroups, g.group)

\* Numbered, were the numbering block a copy of the atom beside it, as the atoms
\* are copies of their block
NumberedAsAtom(group, i, n, fn, prefix) ==
    IF prefix
    THEN <<[group[1] EXCEPT !.Text = PartFunction(fn, i, n) \o <<" ">>]>> \o group
    ELSE Append(group, [group[Len(group)] EXCEPT
                            !.Text = <<" ">> \o PartFunction(fn, i, n)])

\* Numbered, were the posts counted from 0
NumberedFromZero(group, i, n, fn, prefix) ==
    IF prefix
    THEN <<NewBlock(PartFunction(fn, i - 1, n) \o <<" ">>, <<>>)>> \o group
    ELSE Append(group, NewBlock(<<" ">> \o PartFunction(fn, i - 1, n), <<>>))

\* the numbering block added to group i of n
Numbered(group, i, n, fn, prefix) ==
    IF prefix
    THEN <<NewBlock(PartFunction(fn, i, n) \o <<" ">>, <<>>)>> \o group
    ELSE Append(group, NewBlock(<<" ">> \o PartFunction(fn, i, n), <<>>))

\* GroupLoop, were the groups of the first pass returned whatever their number
GroupLoopOnce(blocks, fn, prefix, maxCount) ==
    LET outGroups == Pack(blocks, fn, maxCount)
        n == Len(outGroups)
    IN  [i \in 1..n |-> Numbered(outGroups[i], i, n, fn, prefix)]

\* the outer loop of groupBlocks, entered with the bound maxCount
RECURSIVE GroupLoop(_, _, _, _)
GroupLoop(blocks, fn, prefix, maxCount) ==
    LET outGroups == Pack(blocks, fn, maxCount)
        n == Len(outGroups)
    IN  IF n > maxCount THEN GroupLoop(blocks, fn, prefix, maxCount * 10 + 9)
        ELSE [i \in 1..n |-> Numbered(outGroups[i], i, n, fn, prefix)]

groupBlocks(blocks, fn, prefix) == GroupLoop(blocks, fn, prefix, firstMaxCount)

\* for _, block := range postBlocks { newPost.AddBlock(block) }
RECURSIVE AddBlocks(_, _)
AddBlocks(q, blocks) ==
    IF blocks = <<>> THEN q ELSE AddBlocks(AddBlock(q, Head(blocks)), Tail(blocks))

\* WithinLimit, were a post of exactly the limit split
WithinLimitStrict(q) == GetGraphemeLength(q) < maxPostGraphemeLength

\* the test of Split that returns the post as it is
WithinLimit(q) == GetGraphemeLength(q) <= maxPostGraphemeLength

\* Split(post, options...): the posts returned, or panicked when the call panics
Split(q, opts) ==
    IF WithinLimit(q)
    THEN [panicked |-> FALSE, posts |-> <<q>>]
    ELSE LET opt == ApplyOptions(WithPrefix("default"), opts)
             atoms == splitBlocks(q.Blocks)
         IN  IF atoms.panicked THEN [panicked |-> TRUE, posts |-> <<>>]
             ELSE LET solid == groupBlocks(atoms.output, opt.partFn, opt.prefix)
                      newPost == [NewPost EXCEPT !.CreationTime = q.CreationTime,
                                                 !.Languages = q.Languages]
                  IN  [panicked |-> FALSE,
                       posts |-> [k \in 1..Len(solid) |-> AddBlocks(newPost, solid[k])]]

-----------------------------------------------------------------------------
(* SpecSplit: Split applied to posts of a bounded family *)

\* the most words of a generated text
MaxWords == 5
\* the number of words of the long texts, which split into ten posts or more
ManyWords == 21

WordLens == {1, 97, 99, 100, 101, 250}
SpaceLens == {1, 2, 150}

\* n words of w letters, w > 0, with s spaces between two words; the letter changes
\* from one word to the next
RECURSIVE Sentence(_, _, _)
Sentence(w, s, n) ==
    IF n = 0 THEN <<>>
    ELSE IF n = 1 THEN Repeat("a", w)
    ELSE Sentence(w, s, n - 1) \o Repeat(" ", s)
            \o Repeat(IF n % 2 = 1 THEN "a" ELSE "b", w)

\* the texts of one block: a sentence, with or without spaces before and after it
SplitTexts ==
    {Repeat(" ", lead) \o Sentence(w, s, n) \o Repeat("\n", trail) :
        w \in WordLens, s \in SpaceLens, n \in 1..MaxWords,
        lead \in {0, 2}, trail \in {0, 1}}
    \cup {Sentence(100, 1, n) : n \in {ManyWords}}

\* a short second and third block
SmallTexts == {<<"c">>, <<"c", " ", "c">>, <<" ", "c">>}

TestPost == [CreationTime |-> Ptr(1), Blocks |-> <<>>, Languages |-> <<"es">>]

SplitPosts ==
    {AddText(TestPost, t) : t \in SplitTexts}
    \cup {AddText(AddLink(AddText(TestPost, Sentence(w, s, MaxWords)), t, "u1"), u) :
            w \in WordLens, s \in SpaceLens, t \in SmallTexts, u \in SmallTexts \cup {<<>>}}
    \cup {AddText(AddLink(TestPost, t, "u1"), Sentence(w, s, MaxWords)) :
            w \in WordLens, s \in SpaceLens, t \in SmallTexts}
    \cup {AddLink(TestPost, Sentence(w, s, MaxWords), "u1") :
            w \in WordLens, s \in SpaceLens}

OptionLists ==
    {<<>>} \cup {<<WithPrefix(fn)>> : fn \in {"default", "part", "stars"}}
           \cup {<<WithSuffix(fn)>> : fn \in {"default", "part", "stars"}}

InitSplit ==
    /\ post \in SplitPosts
    /\ options \in OptionLists
    /\ splitOut = <<>>
    /\ lastOp = [op |-> "NewPost"]
    /\ IdleImport
    /\ IdleRest

DoSplit ==
    /\ lastOp.op # "Split"
    /\ splitOut' = Split(post, options)
    /\ lastOp' = [op |-> "Split"]
    /\ UNCHANGED <<post, options, importVars, restVars>>

NextSplit == DoSplit

SpecSplit == InitSplit /\ [][NextSplit]_vars

-----------------------------------------------------------------------------
(* import/text/text.go *)

IsLetter(c) == c \in {"a", "b", "h", "p", "s", "t"}
IsDigit(c) == c \in {DigitChars[i] : i \in DOMAIN DigitChars}

\* [A-Za-z0-9_-]
IsLabelChar(c) == IsLetter(c) \/ IsDigit(c) \/ c \in {"_", "-"}
\* [A-Za-z0-9._-]
IsHostChar(c) == IsLabelChar(c) \/ c = "."
\* [A-Za-z0-9._~%!$&'()*+,;=-]
IsPathChar(c) ==
    IsHostChar(c) \/ c \in {"~", "%", "!", "$", "&", "'", "(", ")", "*", "+", ",", ";", "="}
\* (/[A-Za-z0-9._~%!$&'()*+,;=-]*)+ is a "/" and then any of these
IsPathOrSlash(c) == IsPathChar(c) \/ c = "/"
\* [A-Za-z0-9._~%!$&'()*+,;=/?-]
IsQueryChar(c) == IsPathChar(c) \/ c \in {"/", "?"}
\* [^\s#]
IsTagChar(c) == ~IsSpace(c) /\ c # "#"

\* Positions are those of Go: t[i] of Go is t[i + 1] here, and a match is the pair
\* <<start, end>> of str[start:end].  NoMatch is the end of a failed match.
NoMatch == -1

At(t, i) == IF i < Len(t) THEN t[i + 1] ELSE ""

\* whether c is of the character class named cls
InClass(cls, c) ==
    CASE cls = "digit" -> IsDigit(c)
      [] cls = "host" -> IsHostChar(c)
      [] cls = "path" -> IsPathOrSlash(c)
      [] cls = "query" -> IsQueryChar(c)
      [] cls = "tag" -> IsTagChar(c)

\* the end of the longest run of characters of the class cls that starts at i
RunEnd(t, i, cls) ==
    CHOOSE e \in i..Len(t) :
        /\ \A j \in (i + 1)..e : InClass(cls, t[j])
        /\ e = Len(t) \/ ~InClass(cls, t[e + 1])

HasAt(t, i, lit) == i + Len(lit) <= Len(t) /\ SubSeq(t, i + 1, i + Len(lit)) = lit

\* [A-Za-z][A-Za-z0-9._-]* from i, greedy; with needDot it is
\* [A-Za-z][A-Za-z0-9._-]*\.[A-Za-z0-9_-]+ : the run without the dots that end it,
\* when a dot is left in it.  The texts of the model have no "[" and no digit, so
\* the IPv6 and IPv4 alternatives of the host never match and are left out.
HostEnd(t, i, needDot) ==
    IF ~IsLetter(At(t, i)) THEN NoMatch
    ELSE LET r == RunEnd(t, i, "host")
         IN  IF ~needDot THEN r
             ELSE LET e == CHOOSE k \in (i + 1)..r :
                               t[k] # "." /\ \A j \in (k + 1)..r : t[j] = "."
                  IN  IF \E j \in (i + 2)..e : t[j] = "." THEN e ELSE NoMatch

\* (:[0-9]+)?((/[...]*)+)?(\?[...]*)?(#[...]*)? from e, each group greedy
TailEnd(t, e) ==
    LET port == IF At(t, e) = ":" /\ IsDigit(At(t, e + 1))
                THEN RunEnd(t, e + 1, "digit") ELSE e
        path == IF At(t, port) = "/" THEN RunEnd(t, port, "path") ELSE port
        query == IF At(t, path) = "?" THEN RunEnd(t, path, "query") ELSE path
    IN  IF At(t, query) = "#" THEN RunEnd(t, query + 1, "query") ELSE query

\* fullUrlRe matched at i: the end of the match, or NoMatch
fullUrlRe(t, i) ==
    LET scheme == IF HasAt(t, i, <<"h", "t", "t", "p", "s", ":", "/", "/">>) THEN i + 8
                  ELSE IF HasAt(t, i, <<"h", "t", "t", "p", ":", "/", "/">>) THEN i + 7
                  ELSE NoMatch
        host == IF scheme = NoMatch THEN NoMatch ELSE HostEnd(t, scheme, FALSE)
    IN  IF host = NoMatch THEN NoMatch ELSE TailEnd(t, host)

\* shortUrlRe matched at i
shortUrlRe(t, i) ==
    LET host == HostEnd(t, i, TRUE)
    IN  IF host = NoMatch THEN NoMatch ELSE TailEnd(t, host)

\* usernameRe matched at i
usernameRe(t, i) == IF At(t, i) = "@" THEN HostEnd(t, i + 1, TRUE) ELSE NoMatch

\* hashtagRe matched at i: #[^\s#]+#?
hashtagRe(t, i) ==
    IF At(t, i) = "#" /\ i + 1 < Len(t) /\ IsTagChar(At(t, i + 1))
    THEN LET r == RunEnd(t, i + 1, "tag")
         IN  IF At(t, r) = "#" THEN r + 1 ELSE r
    ELSE NoMatch

\* the regular expression named re matched at i: the end of the match, or NoMatch
MatchEnd(re, t, i) ==
    CASE re = "usernameRe" -> usernameRe(t, i)
      [] re = "hashtagRe" -> hashtagRe(t, i)
      [] re = "fullUrlRe" -> fullUrlRe(t, i)
      [] re = "shortUrlRe" -> shortUrlRe(t, i)

\* re.FindAllStringIndex(str, -1) from position pos on: the leftmost match, then
\* the matches after its end (no pattern here matches the empty string)
RECURSIVE FindAllStringIndex(_, _, _)
FindAllStringIndex(t, re, pos) ==
    IF ~(\E i \in pos..(Len(t) - 1) : MatchEnd(re, t, i) # NoMatch) THEN <<>>
    ELSE LET i0 == CHOOSE i \in pos..(Len(t) - 1) :
                       /\ MatchEnd(re, t, i) # NoMatch
                       /\ \A j \in pos..(i - 1) : MatchEnd(re, t, j) = NoMatch
         IN  <<<<i0, MatchEnd(re, t, i0)>>>>
                 \o FindAllStringIndex(t, re, MatchEnd(re, t, i0))

isPunctuation(chr) == chr \in {".", ",", ")", "?", "!"}

\* StripPunctuation, were one character at most taken from the end
StripOnePunctuation(t, start, end) ==
    IF end > start /\ isPunctuation(t[end]) THEN end - 1 ELSE end

\* for end > start && isPunctuation(str[end-1]) { end-- }
StripPunctuation(t, start, end) ==
    CHOOSE e \in start..end :
        /\ \A j \in (e + 1)..end : isPunctuation(t[j])
        /\ e = start \/ ~isPunctuation(t[e])

\* the loop of findAll over the matches
RECURSIVE FoundOf(_, _, _)
FoundOf(t, matches, what) ==
    IF matches = <<>> THEN <<>>
    ELSE LET start == Head(matches)[1]
             end == StripPunctuation(t, start, Head(matches)[2])
         IN  (IF start = end THEN <<>>
              ELSE <<[start |-> start, end |-> end, what |-> what]>>)
             \o FoundOf(t, Tail(matches), what)

findAll(t, re, what) == FoundOf(t, FindAllStringIndex(t, re, 0), what)

\* the iota values of foundType
webUrl == 0
username == 1
tag == 2

\* FoundLess, were the kind compared first
FoundLessByKind(a, b) ==
    IF a.what # b.what THEN a.what < b.what
    ELSE IF a.start # b.start THEN a.start < b.start
    ELSE a.end < b.end

\* the comparison of sortFound, as "a goes before b"
FoundLess(a, b) ==
    IF a.start # b.start THEN a.start < b.start
    ELSE IF a.end # b.end THEN a.end < b.end
    ELSE a.what < b.what

sortFound(f) == SortSeq(f, FoundLess)

\* the pool of Import, sorted
Found(t) ==
    sortFound(findAll(t, "usernameRe", username) \o findAll(t, "hashtagRe", tag)
              \o findAll(t, "fullUrlRe", webUrl) \o findAll(t, "shortUrlRe", webUrl))

\* text[a:b] of Go
Slice(t, a, b) == SubSeq(t, a + 1, b)

\* Skips, were the cursor compared with the end of the candidate
SkipsPastEnd(cursor, f) == cursor > f.end

\* if p > f.start { continue }
Skips(cursor, f) == cursor > f.start

\* Resolved, were the cursor moved past a candidate its resolver declined
ResolvedAlwaysMoves(st, t, f, answer) ==
    IF IsNil(answer) THEN [st EXCEPT !.p = f.end]
    ELSE LET before == AddText(st.post, Slice(t, st.p, f.start))
             piece == Slice(t, f.start, f.end)
             ans == Deref(answer)
         IN  [post |-> CASE f.what = webUrl -> AddLink(before, ans.shown, ans.uri)
                         [] f.what = username -> AddMention(before, piece, ans)
                         [] f.what = tag -> AddTag(before, piece, ans),
              p |-> f.end]

\* The body of the switch for the candidate f once its resolver has answered:
\* answer is NilPtr, or a pointer to what it returned (for a URL the link text the
\* formatter gives and the URL as a string).  st is the post and the cursor.
Resolved(st, t, f, answer) ==
    IF IsNil(answer) THEN st
    ELSE LET before == AddText(st.post, Slice(t, st.p, f.start))
             piece == Slice(t, f.start, f.end)
             ans == Deref(answer)
         IN  [post |-> CASE f.what = webUrl -> AddLink(before, ans.shown, ans.uri)
                         [] f.what = username -> AddMention(before, piece, ans)
                         [] f.what = tag -> AddTag(before, piece, ans),
              p |-> f.end]

\* Finished, were the text after the last accepted candidate left out
FinishedShort(st, t) == st.post

\* if p < len(text) { out.AddText(text[p:]) }
Finished(st, t) == IF st.p < Len(t) THEN AddText(st.post, Slice(t, st.p, Len(t))) ELSE st.post

-----------------------------------------------------------------------------
(* SpecImport: Import, a step for each candidate of the pool *)

\* the most tokens of an imported text
MaxTokens == 4

ImportTokens ==
    {<<"@">>, <<"#">>, <<" ">>, <<"!">>, <<"a">>, <<"a", ".", "b">>, <<"/", "a">>,
     <<"h", "t", "t", "p", ":", "/", "/">>, <<"@", "a", ".", "b">>}

RECURSIVE TextsOf(_)
TextsOf(n) ==
    IF n = 0 THEN {<<>>}
    ELSE TextsOf(n - 1) \cup {t \o tok : t \in TextsOf(n - 1), tok \in ImportTokens}

ImportTexts == TextsOf(MaxTokens)

\* what a resolver may answer for a candidate, nil (NilPtr) being "absent"
Answers(f) ==
    {NilPtr} \cup
        CASE f.what = webUrl -> {Ptr([shown |-> <<"x", "y">>, uri |-> "u1"]),
                                 Ptr([shown |-> <<>>, uri |-> "u1"])}
          [] f.what = username -> {Ptr("d1"), Ptr("")}
          [] f.what = tag -> {Ptr("t1"), Ptr("t2")}

InitImport ==
    /\ text \in ImportTexts
    /\ post = NewPost
    /\ lastOp = [op |-> "Import"]
    /\ found = <<>>
    /\ idx = 0
    /\ p = 0
    /\ offered = <<>>
    /\ IdleSplit
    /\ IdleRest

\* the candidate of the current iteration of the loop
InLoop == lastOp.op \in {"sortFound", "skip", "resolve"} /\ idx <= Len(found)

\* Import up to the loop: the pool is found and sorted, the post is new
ImportFind ==
    /\ lastOp.op = "Import"
    /\ found' = Found(text)
    /\ post' = NewPost
    /\ p' = 0
    /\ idx' = 1
    /\ lastOp' = [op |-> "sortFound"]
    /\ UNCHANGED <<text, offered, splitVars, restVars>>

\* an iteration that skips its candidate
ImportSkip ==
    /\ InLoop
    /\ Skips(p, found[idx])
    /\ idx' = idx + 1
    /\ lastOp' = [op |-> "skip", f |-> found[idx]]
    /\ UNCHANGED <<post, p, text, found, offered, splitVars, restVars>>

\* an iteration that hands its candidate to its resolver
ImportResolve ==
    /\ InLoop
    /\ ~Skips(p, found[idx])
    /\ \E answer \in Answers(found[idx]) :
        LET st == Resolved([post |-> post, p |-> p], text, found[idx], answer)
        IN  /\ post' = st.post
            /\ p' = st.p
            /\ offered' = Append(offered, [f |-> found[idx], answer |-> answer])
            /\ lastOp' = [op |-> "resolve", f |-> found[idx], answer |-> answer]
    /\ idx' = idx + 1
    /\ UNCHANGED <<text, found, splitVars, restVars>>

\* the end of Import, after the loop
ImportReturn ==
    /\ lastOp.op \in {"sortFound", "skip", "resolve"}
    /\ idx > Len(found)
    /\ post' = Finished([post |-> post, p |-> p], text)
    /\ lastOp' = [op |-> "return"]
    /\ UNCHANGED <<p, idx, text, found, offered, splitVars, restVars>>

NextImport ==
    \/ ImportFind
    \/ ImportSkip
    \/ ImportResolve
    \/ ImportReturn

SpecImport == InitImport /\ [][NextImport]_vars

-----------------------------------------------------------------------------
(* post.go, posts/feedpost.go: the conversion to a FeedPost *)

\* the length in bytes of a character in UTF-8
ByteLen(c) == IF c = "é" THEN 2 ELSE 1

\* len(b.Text)
RECURSIVE TextByteLength(_)
TextByteLength(t) == IF t = <<>> THEN 0 ELSE ByteLen(Head(t)) + TextByteLength(Tail(t))

BlockByteLength(b) == TextByteLength(b.Text)

\* one feature of getBlockFeatures: the field, when it is set and not empty
FeatureElem(kind, a) == IF ~IsNil(a) /\ Deref(a) # "" THEN <<<<kind, Deref(a)>>>> ELSE <<>>

getBlockFeatures(block) ==
    FeatureElem("link", block.Link) \o FeatureElem("mention", block.Mention)
        \o FeatureElem("tag", block.Tag)

\* the loop of ToFeedPost, were the offset moved on past the blocks with a facet only
RECURSIVE FacetsOfFeatured(_, _)
FacetsOfFeatured(blocks, start) ==
    IF blocks = <<>> THEN <<>>
    ELSE LET block == Head(blocks)
             end == start + BlockByteLength(block)
             features == getBlockFeatures(block)
         IN  IF Len(features) > 0
             THEN <<[Features |-> features, ByteStart |-> start, ByteEnd |-> end]>>
                      \o FacetsOfFeatured(Tail(blocks), end)
             ELSE FacetsOfFeatured(Tail(blocks), start)

\* the loop of ToFeedPost over the blocks, from the byte offset start
RECURSIVE Facets(_, _)
Facets(blocks, start) ==
    IF blocks = <<>> THEN <<>>
    ELSE LET block == Head(blocks)
             end == start + BlockByteLength(block)
             features == getBlockFeatures(block)
         IN  (IF Len(features) > 0
              THEN <<[Features |-> features, ByteStart |-> start, ByteEnd |-> end]>>
              ELSE <<>>)
             \o Facets(Tail(blocks), end)

\* creationTime.Format("2006-01-02T15:04:05.999Z07:00"): the time in whole
\* milliseconds
Format(t) == t \div Millisecond

\* ToFeedPost, were the clock read before the creation time is looked at
ToFeedPostReads(c, q, parentNow) ==
    LET now == Now(c, parentNow)
        creationTime == IF IsNil(q.CreationTime) THEN now.time ELSE Deref(q.CreationTime)
    IN  [feed |-> [CreatedAt |-> Format(creationTime),
                   Text |-> GetPlainText(q),
                   Langs |-> q.Languages,
                   Facets |-> Facets(q.Blocks, 0)],
         clock |-> now.clock,
         read |-> TRUE]

\* Converter.ToFeedPost(post) for a converter whose clock is c: the FeedPost, the
\* clock after the call and whether the clock was read; parentNow is what the
\* clock under it returns when it is read
ToFeedPost(c, q, parentNow) ==
    LET unset == IsNil(q.CreationTime)
        now == Now(c, parentNow)
        creationTime == IF unset THEN now.time ELSE Deref(q.CreationTime)
    IN  [feed |-> [CreatedAt |-> Format(creationTime),
                   Text |-> GetPlainText(q),
                   Langs |-> q.Languages,
                   Facets |-> Facets(q.Blocks, 0)],
         clock |-> IF unset THEN now.clock ELSE c,
         read |-> unset]

-----------------------------------------------------------------------------
(* SpecConvert: posts converted one after the other by one Converter *)

\* the most calls of ToFeedPost
MaxConversions == 3
\* the latest time the clock under the converter shows
MaxReading == 4

Readings == 0..MaxReading

ConvertTexts == {<<"a">>, <<"é", "b">>}
ConvertFeatures == {<<>>, <<<<"link", "u1">>>>, <<<<"mention", "d1">>, <<"tag", "t1">>>>}
ConvertBlocks == {NewBlock(t, fl) : t \in ConvertTexts, fl \in ConvertFeatures}

\* posts of one or two appended blocks, and two posts written as struct literals: a
\* feature that is the empty string, a block without text
ConvertBodies ==
    {AddBlock(NewPost, b) : b \in ConvertBlocks}
    \cup {AddBlock(AddBlock(NewPost, NewBlock(<<"é", "b">>, fl)), NewBlock(<<"a">>, gl)) :
            fl, gl \in ConvertFeatures}
    \cup {[NewPost EXCEPT !.Blocks =
              <<[PlainBlock(<<"é">>) EXCEPT !.Link = Ptr("")],
                [PlainBlock(<<"a">>) EXCEPT !.Tag = Ptr("t1")]>>],
          [NewPost EXCEPT !.Blocks =
              <<PlainBlock(<<"é">>), [PlainBlock(<<>>) EXCEPT !.Mention = Ptr("d1")],
                [PlainBlock(<<"b">>) EXCEPT !.Link = Ptr("u1")]>>]}

ConvertPosts ==
    ConvertBodies \cup {SetCreationTime(q, t) : q \in ConvertBodies, t \in {3}}

InitConvert ==
    /\ post = NewPost
    /\ lastOp = [op |-> "NewConverter"]
    /\ IdleSplit
    /\ IdleImport
    /\ IdleConvert
    /\ IdlePublish
    /\ IdleClient
    /\ IdleResolve
    /\ IdleHtml

\* c.ToFeedPost(post)
DoToFeedPost ==
    /\ Len(convLog) < MaxConversions
    /\ \E q \in ConvertPosts, parentNow \in Readings :
        LET r == ToFeedPost(clock, q, parentNow)
        IN  /\ ~r.read => parentNow = 0    \* a clock that is not read shows nothing
            /\ post' = q
            /\ feed' = r.feed
            /\ clock' = r.clock
            /\ convLog' = Append(convLog,
                                 IF r.read
                                 THEN [read |-> TRUE, parentNow |-> parentNow,
                                       time |-> Now(clock, parentNow).time]
                                 ELSE [read |-> FALSE])
    /\ lastOp' = [op |-> "ToFeedPost"]
    /\ UNCHANGED <<splitVars, importVars, pubVars, clientVars, resolveVars, htmlVars>>

NextConvert == DoToFeedPost

SpecConvert == InitConvert /\ [][NextConvert]_vars

-----------------------------------------------------------------------------
(* multiposter/multiposter.go, and the client of multiposter_test.go *)

\* cidOf(i) and uriOf(i) of the tests
cidOf(i) == i
uriOf(i) == <<"at://xxxx/yyyy/", i>>

errPublish == "failure posting"

\* fakeClient.Publish(ctx, post): the client after the call, the result and the
\* error.  calls is not a field of fakeClient: it records every post the client was
\* called with and whether the client published it.
ClientPublish(f, feedPost) ==
    IF f.failAfter = 0
    THEN [client |-> [f EXCEPT !.calls = Append(@, [post |-> feedPost, ok |-> FALSE])],
          result |-> NilPtr, err |-> Ptr(errPublish)]
    ELSE LET pp == [cid |-> cidOf(Len(f.posts)), uri |-> uriOf(Len(f.posts)),
                    post |-> feedPost]
         IN  [client |-> [f EXCEPT !.posts = Append(@, pp),
                                   !.failAfter = IF @ > 0 THEN @ - 1 ELSE @,
                                   !.calls = Append(@, [post |-> feedPost, ok |-> TRUE])],
              result |-> Ptr([Uri |-> pp.uri, Cid |-> pp.cid]),
              err |-> NilPtr]

StrongRef(r) == [Cid |-> r.Cid, Uri |-> r.Uri]

setReplyField(thisPost, threadParent, threadRoot) ==
    [thisPost EXCEPT !.Reply = Ptr([Parent |-> StrongRef(Deref(threadParent)),
                                    Root |-> StrongRef(Deref(threadRoot))])]

\* the state doPublish starts its loop with
PublishStart(previousResults, f) ==
    [result |-> [Published |-> previousResults, Remaining |-> <<>>, Error |-> NilPtr],
     threadRoot |-> IF Len(previousResults) > 0 THEN Ptr(previousResults[1]) ELSE NilPtr,
     threadParent |-> IF Len(previousResults) > 0
                      THEN Ptr(previousResults[Len(previousResults)]) ELSE NilPtr,
     client |-> f]

\* the post doPublish hands to the client, were the parent and the root given to
\* setReplyField in the other order
ThisPostSwapped(m, st, feedPost) ==
    IF m.threaded /\ ~IsNil(st.threadParent) /\ ~IsNil(st.threadRoot)
    THEN setReplyField(feedPost, st.threadRoot, st.threadParent)
    ELSE feedPost

\* the post doPublish hands to the client for posts[i]
ThisPost(m, st, feedPost) ==
    IF m.threaded /\ ~IsNil(st.threadParent) /\ ~IsNil(st.threadRoot)
    THEN setReplyField(feedPost, st.threadParent, st.threadRoot)
    ELSE feedPost

\* the loop of doPublish, were it to go on after an error of the client
RECURSIVE PublishLoopOn(_, _, _, _)
PublishLoopOn(m, posts, i, st) ==
    IF i >= Len(posts) THEN st
    ELSE LET r == ClientPublish(st.client, ThisPost(m, st, posts[i + 1]))
         IN  IF ~IsNil(r.err)
             THEN PublishLoopOn(m, posts, i + 1,
                                [st EXCEPT !.result.Remaining = SubSeq(posts, i + 1, Len(posts)),
                                           !.result.Error = r.err,
                                           !.client = r.client])
             ELSE PublishLoopOn(m, posts, i + 1,
                      [st EXCEPT !.threadParent = r.result,
                                 !.threadRoot = IF IsNil(@) THEN r.result ELSE @,
                                 !.result.Published = Append(@, Deref(r.result)),
                                 !.client = r.client])

\* the loop of doPublish, were the post the client failed on left out of Remaining
RECURSIVE PublishLoopDrops(_, _, _, _)
PublishLoopDrops(m, posts, i, st) ==
    IF i >= Len(posts) THEN st
    ELSE LET r == ClientPublish(st.client, ThisPost(m, st, posts[i + 1]))
         IN  IF ~IsNil(r.err)
             THEN [st EXCEPT !.result.Remaining = SubSeq(posts, i + 2, Len(posts)),
                             !.result.Error = r.err,
                             !.client = r.client]
             ELSE PublishLoopDrops(m, posts, i + 1,
                      [st EXCEPT !.threadParent = r.result,
                                 !.threadRoot = IF IsNil(@) THEN r.result ELSE @,
                                 !.result.Published = Append(@, Deref(r.result)),
                                 !.client = r.client])

\* for i := range posts { ... } of doPublish, from i on
RECURSIVE PublishLoop(_, _, _, _)
PublishLoop(m, posts, i, st) ==
    IF i >= Len(posts) THEN st
    ELSE LET r == ClientPublish(st.client, ThisPost(m, st, posts[i + 1]))
         IN  IF ~IsNil(r.err)
             THEN [st EXCEPT !.result.Remaining = SubSeq(posts, i + 1, Len(posts)),
                             !.result.Error = r.err,
                             !.client = r.client]
             ELSE PublishLoop(m, posts, i + 1,
                      [st EXCEPT !.threadParent = r.result,
                                 !.threadRoot = IF IsNil(@) THEN r.result ELSE @,
                                 !.result.Published = Append(@, Deref(r.result)),
                                 !.client = r.client])

\* doPublish, were Resume to start from no result
doPublishAnew(m, posts, previousResults, f) ==
    PublishLoop(m, posts, 0, PublishStart(<<>>, f))

\* m.doPublish(ctx, posts, previousResults) with the client f: the PublishResult
\* and the client after the call
doPublish(m, posts, previousResults, f) ==
    PublishLoop(m, posts, 0, PublishStart(previousResults, f))

-----------------------------------------------------------------------------
(* SpecPublish: Publish, then Resume on the result of the call before *)

\* the most posts of a call of Publish
MaxPosts == 3
\* the most calls of Resume after a Publish
MaxResumes == 2

\* a FeedPost, as far as the multiposter reads it
FeedPost(n, reply) == [Text |-> n, Reply |-> reply]

\* a reply reference set by the caller, to a post that is not of the list
OtherReply ==
    Ptr([Parent |-> [Cid |-> "c", Uri |-> "at://other/c"],
         Root |-> [Cid |-> "r", Uri |-> "at://other/r"]])

\* the lists given to Publish: posts as the converter makes them, without reply
\* reference, and lists whose first or last post has one set by the caller
PostLists ==
    UNION {{[i \in 1..n |-> FeedPost(i, NilPtr)],
            [i \in 1..n |-> FeedPost(i, IF i = 1 THEN OtherReply ELSE NilPtr)],
            [i \in 1..n |-> FeedPost(i, IF i = n THEN OtherReply ELSE NilPtr)]} :
           n \in 0..MaxPosts}

\* failAfter of the client: -1 for a client that never fails
FailAfters == -1..MaxPosts

InitPublish ==
    /\ post = NewPost
    /\ lastOp = [op |-> "New"]
    /\ IdleSplit
    /\ IdleImport
    /\ IdleConvert
    /\ mposter \in {[threaded |-> FALSE], [threaded |-> TRUE]}
    /\ fake = [posts |-> <<>>, failAfter |-> -1, calls |-> <<>>]
    /\ pubPosts = <<>>
    /\ pubResult = <<>>
    /\ resumes = 0
    /\ IdleClient
    /\ IdleResolve
    /\ IdleHtml

\* c.failAfter = ...; m.Publish(ctx, posts)
DoPublish ==
    /\ lastOp.op = "New"
    /\ \E posts \in PostLists, failAfter \in FailAfters :
        LET st == doPublish(mposter, posts, <<>>, [fake EXCEPT !.failAfter = failAfter])
        IN  /\ pubPosts' = posts
            /\ pubResult' = st.result
            /\ fake' = st.client
    /\ lastOp' = [op |-> "Publish"]
    /\ UNCHANGED <<post, mposter, resumes, splitVars, importVars, convVars, clientVars, resolveVars, htmlVars>>

\* c.failAfter = ...; m.Resume(ctx, result) on the result of the call before
DoResume ==
    /\ lastOp.op \in {"Publish", "Resume"}
    /\ resumes < MaxResumes
    /\ \E failAfter \in FailAfters :
        LET st == doPublish(mposter, pubResult.Remaining, pubResult.Published,
                            [fake EXCEPT !.failAfter = failAfter])
        IN  /\ pubResult' = st.result
            /\ fake' = st.client
    /\ resumes' = resumes + 1
    /\ lastOp' = [op |-> "Resume"]
    /\ UNCHANGED <<post, mposter, pubPosts, splitVars, importVars, convVars, clientVars, resolveVars, htmlVars>>

NextPublish ==
    \/ DoPublish
    \/ DoResume

SpecPublish == InitPublish /\ [][NextPublish]_vars

-----------------------------------------------------------------------------
(* client/client.go, and the server of testing/fake_server.go *)

\* Times of the client are counted in units of five seconds.
\* 5 * time.Second
Margin == 1
\* the life of the tokens the server makes; an access token lives shorter than a
\* refresh token
AccessLife == 3
RefreshLife == 6

\* A token is the string "", a string that is no JWT, or a JWT, which is modelled
\* by what it is for and its exp claim (NilPtr when it has none).
Jwt(use, exp) == [form |-> "jwt", use |-> use, exp |-> exp]
EmptyToken == [form |-> "empty", use |-> "", exp |-> NilPtr]
BadToken == [form |-> "malformed", use |-> "", exp |-> NilPtr]

\* isJwtExpired, were the token compared with the time of the clock, without the
\* five seconds
isJwtExpiredLate(jwtString, now) ==
    IF jwtString = EmptyToken THEN [expired |-> TRUE, err |-> FALSE]
    ELSE IF jwtString = BadToken THEN [expired |-> FALSE, err |-> TRUE]
    ELSE [expired |-> ~IsNil(jwtString.exp) /\ now - Margin > Deref(jwtString.exp),
          err |-> FALSE]

\* isJwtExpired(jwtString, now)
isJwtExpired(jwtString, now) ==
    IF jwtString = EmptyToken THEN [expired |-> TRUE, err |-> FALSE]
    ELSE IF jwtString = BadToken THEN [expired |-> FALSE, err |-> TRUE]
    ELSE [expired |-> ~IsNil(jwtString.exp) /\ now > Deref(jwtString.exp),
          err |-> FALSE]

identifier == "testuser"
password == "testpass"

\* what the server answers to createSession or refreshSession at the time t: an
\* error, or the two tokens
ServerAnswers(t) ==
    {NilPtr} \cup
    {Ptr([AccessJwt |-> a, RefreshJwt |-> Jwt("refresh", Ptr(t + RefreshLife))]) :
        a \in {Jwt("access", Ptr(t + AccessLife)), Jwt("access", NilPtr), EmptyToken, BadToken}}
    \cup {Ptr([AccessJwt |-> EmptyToken, RefreshJwt |-> BadToken])}

\* the end of GetAccessToken after a call of the server: the tokens are stored when
\* the server gave them
AfterCall(auth, call, answer) ==
    [auth |-> IF IsNil(answer) THEN auth ELSE answer,
     calls |-> <<call>>,
     err |-> IsNil(answer)]

CreateSession(auth, answer) ==
    AfterCall(auth,
              [Method |-> "createSession", Identifier |-> identifier, Password |-> password],
              answer)

\* c.xrpc.Auth.AccessJwt = c.xrpc.Auth.RefreshJwt, then ServerRefreshSession
RefreshSession(auth, answer) ==
    LET swapped == Ptr([Deref(auth) EXCEPT !.AccessJwt = Deref(auth).RefreshJwt])
    IN  AfterCall(swapped,
                  [Method |-> "refreshSession", Jwt |-> Deref(swapped).AccessJwt],
                  answer)

\* clientImpl.GetAccessToken(ctx): xrpc.Auth after the call, the calls the server
\* got and whether an error is returned; clockNow is c.clock.Now() and answer what
\* the server answers if it is called
GetAccessToken(auth, clockNow, answer) ==
    LET now == clockNow + Margin
        access == isJwtExpired(Deref(auth).AccessJwt, now)
        refresh == isJwtExpired(Deref(auth).RefreshJwt, now)
        done(err) == [auth |-> auth, calls |-> <<>>, err |-> err]
    IN  IF IsNil(auth) THEN CreateSession(auth, answer)
        ELSE IF access.err THEN done(TRUE)
        ELSE IF ~access.expired THEN done(FALSE)
        ELSE IF refresh.err THEN done(TRUE)
        ELSE IF ~refresh.expired THEN RefreshSession(auth, answer)
        ELSE CreateSession(auth, answer)

-----------------------------------------------------------------------------
(* SpecClient: GetAccessToken called now and then, as time goes by *)

\* the latest time of the clock of the client
MaxTime == 9

InitClient ==
    /\ post = NewPost
    /\ lastOp = [op |-> "New"]
    /\ IdleSplit
    /\ IdleImport
    /\ IdleConvert
    /\ IdlePublish
    /\ IdleClient
    /\ IdleResolve
    /\ IdleHtml

\* c.GetAccessToken(ctx)
DoGetAccessToken ==
    /\ \E answer \in ServerAnswers(wallTime) :
        LET r == GetAccessToken(session, wallTime, answer)
        IN  /\ session' = r.auth
            /\ serverCalls' = r.calls
            /\ lastOp' = [op |-> "GetAccessToken", err |-> r.err]
    /\ UNCHANGED <<post, wallTime, splitVars, importVars, convVars, pubVars, resolveVars, htmlVars>>

\* clock.Time = clock.Time.Add(...)
Tick ==
    /\ wallTime < MaxTime
    /\ wallTime' = wallTime + 1
    /\ lastOp' = [op |-> "Tick"]
    /\ UNCHANGED <<post, session, serverCalls, splitVars, importVars, convVars, pubVars, resolveVars, htmlVars>>

NextClient ==
    \/ DoGetAccessToken
    \/ Tick

SpecClient == InitClient /\ [][NextClient]_vars

-----------------------------------------------------------------------------
(* import/text/text.go: the resolvers, and url.Parse as they use it *)

IsHex(c) == IsDigit(c) \/ c \in {"a", "b", "c", "d", "e", "f", "A", "B", "C", "D", "E", "F"}

HasPrefix(t, pre) == Len(pre) <= Len(t) /\ SubSeq(t, 1, Len(pre)) = pre

\* strings.Index(t, sub), from 0; -1 when sub is not in t
Index(t, sub) ==
    LET at == {i \in 0..(Len(t) - Len(sub)) : SubSeq(t, i + 1, i + Len(sub)) = sub}
    IN  IF at = {} THEN -1 ELSE CHOOSE i \in at : \A j \in at : i <= j

\* strings.LastIndex(t, sub)
LastIndex(t, sub) ==
    LET at == {i \in 0..(Len(t) - Len(sub)) : SubSeq(t, i + 1, i + Len(sub)) = sub}
    IN  IF at = {} THEN -1 ELSE CHOOSE i \in at : \A j \in at : i >= j

\* getScheme of net/url: the scheme and the rest, or an error for a string that
\* starts with a colon
getScheme(rawURL) ==
    LET stops == {i \in 1..Len(rawURL) :
                     /\ ~IsLetter(rawURL[i])
                     /\ ~(i > 1 /\ (IsDigit(rawURL[i]) \/ rawURL[i] \in {"+", "-", "."}))}
        none == [err |-> FALSE, scheme |-> <<>>, rest |-> rawURL]
    IN  IF stops = {} THEN none
        ELSE LET i == CHOOSE k \in stops : \A j \in stops : k <= j
             IN  IF rawURL[i] # ":" THEN none
                 ELSE IF i = 1 THEN [err |-> TRUE, scheme |-> <<>>, rest |-> <<>>]
                 ELSE [err |-> FALSE, scheme |-> SubSeq(rawURL, 1, i - 1),
                       rest |-> SubSeq(rawURL, i + 1, Len(rawURL))]

\* the test unescape makes of a path: every % is followed by two hex digits
ValidEscapes(t) ==
    \A i \in 1..Len(t) :
        t[i] = "%" => (i + 2 <= Len(t) /\ IsHex(t[i + 1]) /\ IsHex(t[i + 2]))

\* parseHost, for a host that is no IPv6 literal: the port after the last colon is
\* digits only, and the host holds no % (an escape of an ASCII byte is refused)
ValidHost(host) ==
    LET i == LastIndex(host, <<":">>)
    IN  /\ i # -1 => \A j \in (i + 2)..Len(host) : IsDigit(host[j])
        /\ \A j \in 1..Len(host) : host[j] # "%"

\* url.Parse(u) for strings without '?', '#', '@', '[' and control characters:
\* whether it fails, and the scheme, the host and the path of the URL
urlParse(u) ==
    LET sch == getScheme(u)
        rest == sch.rest
        failed == [err |-> TRUE, Scheme |-> <<>>, Host |-> <<>>, Path |-> <<>>]
        url(host, path) == [err |-> FALSE, Scheme |-> sch.scheme, Host |-> host, Path |-> path]
    IN  IF sch.err THEN failed
        ELSE IF ~HasPrefix(rest, <<"/">>) /\ sch.scheme # <<>> THEN url(<<>>, <<>>)
        ELSE IF ~HasPrefix(rest, <<"/">>)
                /\ LET cut == Index(rest, <<"/">>)
                       segment == IF cut = -1 THEN rest ELSE SubSeq(rest, 1, cut)
                   IN  Index(segment, <<":">>) # -1
             THEN failed
        ELSE IF HasPrefix(rest, <<"/", "/">>)
             THEN LET after == SubSeq(rest, 3, Len(rest))
                      cut == Index(after, <<"/">>)
                      authority == IF cut = -1 THEN after ELSE SubSeq(after, 1, cut)
                      path == IF cut = -1 THEN <<>> ELSE SubSeq(after, cut + 1, Len(after))
                  IN  IF ValidHost(authority) /\ ValidEscapes(path)
                      THEN url(authority, path) ELSE failed
        ELSE IF ValidEscapes(rest) THEN url(<<>>, rest) ELSE failed

\* DefaultUrlResolver(u): nil (NilPtr), or a pointer to the URL
DefaultUrlResolver(u) ==
    LET n == Index(u, <<":", "/", "/">>)
        full == IF n < 0 THEN <<"h", "t", "t", "p", "s", ":", "/", "/">> \o u ELSE u
        parsed == urlParse(full)
    IN  IF parsed.err THEN NilPtr
        ELSE IF parsed.Scheme = <<>> THEN NilPtr
        ELSE Ptr(parsed)

\* what net.LookupIP may give for a host name
Lookups == {"error", "no address", "address"}

\* NetworkUrlResolver(u): parsed.Hostname() dereferences parsed, so the call panics
\* when DefaultUrlResolver returned nil
NetworkUrlResolver(u, lookup) ==
    LET parsed == DefaultUrlResolver(u)
    IN  IF IsNil(parsed) THEN [panicked |-> TRUE, out |-> NilPtr]
        ELSE IF lookup # "address" THEN [panicked |-> FALSE, out |-> NilPtr]
        ELSE [panicked |-> FALSE, out |-> parsed]

DefaultHandleResolver(h) == NilPtr

\* DefaultTagResolver(hashtag); unicode.IsNumber is IsDigit on the characters of
\* the model
DefaultTagResolver(hashtag) ==
    LET cutPrefix == IF HasPrefix(hashtag, <<"#">>) THEN Tail(hashtag) ELSE hashtag
        cut == IF cutPrefix # <<>> /\ cutPrefix[Len(cutPrefix)] = "#"
               THEN SubSeq(cutPrefix, 1, Len(cutPrefix) - 1) ELSE cutPrefix
    IN  IF \E i \in 1..Len(cut) : ~IsDigit(cut[i]) THEN Ptr(cut) ELSE NilPtr

NoTagResolver(hashtag) == NilPtr

-----------------------------------------------------------------------------
(* SpecResolve: the resolvers of the package called on strings *)

\* the most tokens of a string handed to a resolver
MaxUrlTokens == 3

ResolverTokens ==
    {<<"a", ".", "b">>, <<":", "/", "/">>, <<"/">>, <<"x">>, <<":">>, <<"8">>,
     <<"%", "4", "1">>, <<"%", "z">>, <<"#">>}

RECURSIVE ResolverStrings(_)
ResolverStrings(n) ==
    IF n = 0 THEN {<<>>}
    ELSE ResolverStrings(n - 1)
            \cup {t \o tok : t \in ResolverStrings(n - 1), tok \in ResolverTokens}

\* the strings the package hands to a URL resolver hold no '#' at their start, the
\* others may
UrlStrings == {u \in ResolverStrings(MaxUrlTokens) : Index(u, <<"#">>) = -1}

InitResolve ==
    /\ post = NewPost
    /\ lastOp = [op |-> "New"]
    /\ IdleSplit
    /\ IdleImport
    /\ IdleRest

\* no resolver has been called yet: a resolver keeps nothing from one call to the
\* next, so one call is followed
NotCalled == resolverCall.resolver = "none"

DoDefaultUrlResolver ==
    /\ NotCalled
    /\ \E u \in UrlStrings :
        resolverCall' = [resolver |-> "DefaultUrlResolver", input |-> u,
                         panicked |-> FALSE, out |-> DefaultUrlResolver(u)]
    /\ lastOp' = [op |-> "DefaultUrlResolver"]
    /\ UNCHANGED <<post, splitVars, importVars, convVars, pubVars, clientVars, htmlVars>>

DoNetworkUrlResolver ==
    /\ NotCalled
    /\ \E u \in UrlStrings : \E lookup \in Lookups :
        LET r == NetworkUrlResolver(u, lookup)
        IN  resolverCall' = [resolver |-> "NetworkUrlResolver", input |-> u,
                             panicked |-> r.panicked, out |-> r.out]
    /\ lastOp' = [op |-> "NetworkUrlResolver"]
    /\ UNCHANGED <<post, splitVars, importVars, convVars, pubVars, clientVars, htmlVars>>

DoDefaultHandleResolver ==
    /\ NotCalled
    /\ \E h \in ResolverStrings(MaxUrlTokens) :
        resolverCall' = [resolver |-> "DefaultHandleResolver", input |-> h,
                         panicked |-> FALSE, out |-> DefaultHandleResolver(h)]
    /\ lastOp' = [op |-> "DefaultHandleResolver"]
    /\ UNCHANGED <<post, splitVars, importVars, convVars, pubVars, clientVars, htmlVars>>

DoDefaultTagResolver ==
    /\ NotCalled
    /\ \E h \in ResolverStrings(MaxUrlTokens) :
        resolverCall' = [resolver |-> "DefaultTagResolver", input |-> h,
                         panicked |-> FALSE, out |-> DefaultTagResolver(h)]
    /\ lastOp' = [op |-> "DefaultTagResolver"]
    /\ UNCHANGED <<post, splitVars, importVars, convVars, pubVars, clientVars, htmlVars>>

DoNoTagResolver ==
    /\ NotCalled
    /\ \E h \in ResolverStrings(MaxUrlTokens) :
        resolverCall' = [resolver |-> "NoTagResolver", input |-> h,
                         panicked |-> FALSE, out |-> NoTagResolver(h)]
    /\ lastOp' = [op |-> "NoTagResolver"]
    /\ UNCHANGED <<post, splitVars, importVars, convVars, pubVars, clientVars, htmlVars>>

NextResolve ==
    \/ DoDefaultUrlResolver
    \/ DoNetworkUrlResolver
    \/ DoDefaultHandleResolver
    \/ DoDefaultTagResolver
    \/ DoNoTagResolver

SpecResolve == InitResolve /\ [][NextResolve]_vars

-----------------------------------------------------------------------------
(* The HTML importer: html.go *)

\* a node of the tree html.Parse gives: a text node carries Text, an element
\* node carries its tag, its href attribute (nil without one) and its children
TextNode(txt) ==
    [Type |-> "text", Tag |-> "", Text |-> txt, Href |-> NilPtr, Children |-> <<>>]
ElementNode(tg, href, children) ==
    [Type |-> "element", Tag |-> tg, Text |-> <<>>, Href |-> href,
     Children |-> children]

\* conv := &converter{post: atp.NewPost()}
NewConverter ==
    [post |-> NewPost, inPara |-> FALSE, inPre |-> FALSE, wantSpace |-> FALSE,
     linkTarget |-> <<>>, listIndex |-> <<>>, ignore |-> 0]

zeroWidthSpace == "zwsp"

addTextBlock(c, txt) ==
    IF c.ignore > 0 THEN c
    ELSE IF Len(c.linkTarget) > 0
         THEN [c EXCEPT !.post = AddLink(@, txt, c.linkTarget[Len(c.linkTarget)])]
         ELSE [c EXCEPT !.post = AddText(@, txt)]

\* one turn of the loop of addText over the runes of the text
addRune(c, r) ==
    IF IsSpace(r)
    THEN IF r # zeroWidthSpace /\ c.inPara THEN [c EXCEPT !.wantSpace = TRUE] ELSE c
    ELSE LET broken == IF Len(c.post.Blocks) > 0 THEN addTextBlock(c, <<"\n">>)
                       ELSE c
             indented == IF Len(c.listIndex) > 0
                         THEN addTextBlock(broken, Repeat(" ", 2 * Len(c.listIndex)))
                         ELSE broken
             ready == IF ~c.inPara THEN indented
                      ELSE IF c.wantSpace
                           THEN [addTextBlock(c, <<" ">>) EXCEPT !.wantSpace = FALSE]
                           ELSE c
         IN  [addTextBlock(ready, <<r>>) EXCEPT !.inPara = TRUE]

RECURSIVE addRunes(_, _)
addRunes(c, txt) ==
    IF txt = <<>> THEN c ELSE addRunes(addRune(c, Head(txt)), Tail(txt))

addText(c, txt) ==
    IF c.inPre
    THEN LET started == IF ~c.inPara
                        THEN [addTextBlock(c, <<"\n">>) EXCEPT !.inPara = TRUE]
                        ELSE c
         IN  addTextBlock(started, txt)
    ELSE addRunes(c, txt)

paragraphBoundary(c) == [c EXCEPT !.inPara = FALSE, !.wantSpace = FALSE]

startIgnore(c) == [c EXCEPT !.ignore = @ + 1]

endIgnore(c) == IF c.ignore > 0 THEN [c EXCEPT !.ignore = @ - 1] ELSE c

startAnchor(c, n) ==
    LET spaced == IF c.inPara /\ c.wantSpace
                  THEN [addTextBlock(c, <<" ">>) EXCEPT !.wantSpace = FALSE]
                  ELSE c
    IN  [spaced EXCEPT !.linkTarget =
            Append(@, IF IsNil(n.Href) THEN <<>> ELSE Deref(n.Href))]

endAnchor(c) ==
    IF Len(c.linkTarget) > 0
    THEN [c EXCEPT !.linkTarget = SubSeq(@, 1, Len(@) - 1)]
    ELSE c

startPre(c) == [paragraphBoundary(c) EXCEPT !.inPre = TRUE]

endPre(c) == [paragraphBoundary(c) EXCEPT !.inPre = FALSE]

startHr(c) ==
    paragraphBoundary(addText(paragraphBoundary(c), <<"-", "-", "-", "-", "-">>))

startUl(c) == [paragraphBoundary(c) EXCEPT !.listIndex = Append(@, 0)]

startOl(c) == [paragraphBoundary(c) EXCEPT !.listIndex = Append(@, 1)]

endList(c) ==
    LET c1 == paragraphBoundary(c)
    IN  IF Len(c1.listIndex) > 0
        THEN [c1 EXCEPT !.listIndex = SubSeq(@, 1, Len(@) - 1)]
        ELSE c1

startLi(c) ==
    LET c1 == paragraphBoundary(c)
        n == Len(c1.listIndex)
    IN  IF n = 0 THEN c1
        ELSE IF c1.listIndex[n] = 0 THEN addText(c1, <<"*", " ">>)
        ELSE [addText(c1, Itoa(c1.listIndex[n]) \o <<".", " ">>)
                EXCEPT !.listIndex[n] = c1.listIndex[n] + 1]

\* the tags of htmlTags by what they do
BoundaryTags == {"p", "div", "h1", "h2", "h3", "h4", "h5", "h6"}
IgnoredTags ==
    {"head", "script", "applet", "object", "svg", "style", "link", "iframe"}

\* htmlTags[n.Data].preFn, doNothing for a tag that is not in the map
preFn(c, n) ==
    CASE n.Tag = "a" -> startAnchor(c, n)
      [] n.Tag = "br" -> paragraphBoundary(c)
      [] n.Tag \in BoundaryTags -> paragraphBoundary(c)
      [] n.Tag = "pre" -> startPre(c)
      [] n.Tag = "hr" -> startHr(c)
      [] n.Tag = "ol" -> startOl(c)
      [] n.Tag = "ul" -> startUl(c)
      [] n.Tag = "li" -> startLi(c)
      [] n.Tag \in IgnoredTags -> startIgnore(c)
      [] OTHER -> c

\* htmlTags[n.Data].postFn
postFn(c, n) ==
    CASE n.Tag = "a" -> endAnchor(c)
      [] n.Tag \in BoundaryTags -> paragraphBoundary(c)
      [] n.Tag = "pre" -> endPre(c)
      [] n.Tag \in {"ol", "ul"} -> endList(c)
      [] n.Tag = "li" -> paragraphBoundary(c)
      [] n.Tag \in IgnoredTags -> endIgnore(c)
      [] OTHER -> c

RECURSIVE convert(_, _)
RECURSIVE convertChildren(_, _)

convert(c, n) ==
    IF n.Type = "text" THEN addText(c, n.Text)
    ELSE postFn(convertChildren(preFn(c, n), n.Children), n)

\* for s := n.FirstChild; s != nil; s = s.NextSibling { c.convert(s) }
convertChildren(c, nodes) ==
    IF nodes = <<>> THEN c
    ELSE convertChildren(convert(c, Head(nodes)), Tail(nodes))

\* Import, from the children of the body of the parsed document on: the document,
\* html and body nodes around them do nothing, and the empty head raises and
\* lowers the counter of ignored elements
HtmlImport(body) ==
    convertChildren(endIgnore(startIgnore(NewConverter)), body).post

-----------------------------------------------------------------------------
(* The specification of the HTML importer *)

\* the greatest number of nodes in the body of a document
MaxNodes == 3

\* the texts of the text nodes
NodeTexts == {<<"a", " ">>, <<"b">>, <<" ">>}

\* what an element holds: one text node
InnerNodes == {<<TextNode(t)>> : t \in {<<"c">>, <<" ", "c">>}}

\* elements that hold text: a paragraph, an unknown tag, a link, preformatted
\* text and an ignored element
LeafTags == {"p", "b", "a", "pre", "script"}

LeafElements ==
    {ElementNode(tg, IF tg = "a" THEN Ptr(<<"u">>) ELSE NilPtr, ch) :
        tg \in LeafTags, ch \in InnerNodes}
    \cup {ElementNode("br", NilPtr, <<>>), ElementNode("hr", NilPtr, <<>>)}

\* elements that hold elements: an ignored element and the two lists
NestingElements ==
    {ElementNode(pair[1], NilPtr,
                 <<ElementNode(pair[2], NilPtr, <<TextNode(<<"c">>)>>)>>) :
        pair \in {<<"object", "p">>, <<"object", "script">>,
                  <<"ul", "li">>, <<"ol", "li">>}}

BodyNodes == {TextNode(t) : t \in NodeTexts} \cup LeafElements \cup NestingElements

\* the bodies: no two text nodes side by side, the parser makes one of them
Bodies ==
    {b \in UNION {[1..n -> BodyNodes] : n \in 0..MaxNodes} :
        \A i \in 1..(Len(b) - 1) : ~(b[i].Type = "text" /\ b[i + 1].Type = "text")}

InitHtml ==
    /\ post = NewPost
    /\ lastOp = [op |-> "New"]
    /\ IdleSplit
    /\ IdleImport
    /\ IdleConvert
    /\ IdlePublish
    /\ IdleClient
    /\ IdleResolve
    /\ htmlDoc \in Bodies

DoHtmlImport ==
    /\ lastOp.op = "New"
    /\ post' = HtmlImport(htmlDoc)
    /\ lastOp' = [op |-> "HtmlImport"]
    /\ UNCHANGED <<htmlDoc, splitVars, importVars, convVars, pubVars, clientVars,
                   resolveVars>>

NextHtml == DoHtmlImport

SpecHtml == InitHtml /\ [][NextHtml]_vars

-----------------------------------------------------------------------------
(* Split: what the claims speak of *)

\* Split has been called and splitOut is its outcome
SplitDone == lastOp.op = "Split"

\* Split has returned a list of posts
SplitReturned == SplitDone /\ ~splitOut.panicked

\* the post was too long and Split went on to split it
WasSplit == ~(GetGraphemeLength(post) <= maxPostGraphemeLength)

\* the numbering function and the placement the options select
Chosen == ApplyOptions(WithPrefix("default"), options)

\* the numbering string of post k of the posts returned
NumberingOf(k) == PartFunction(Chosen.partFn, k, Len(splitOut.posts))

StartsWith(t, pre) == Len(pre) <= Len(t) /\ SubSeq(t, 1, Len(pre)) = pre
EndsWith(t, suf) ==
    Len(suf) <= Len(t) /\ SubSeq(t, Len(t) - Len(suf) + 1, Len(t)) = suf

\* the plain text of returned post k without its numbering and the space beside it
Denumbered(k) ==
    LET t == GetPlainText(splitOut.posts[k])
        m == Len(NumberingOf(k)) + 1
    IN  IF Chosen.prefix THEN SubSeq(t, m + 1, Len(t)) ELSE SubSeq(t, 1, Len(t) - m)

DenumberedTexts == [k \in 1..Len(splitOut.posts) |-> Denumbered(k)]

AllSpaces(t, from, to) == \A j \in from..to : IsSpace(t[j])

\* orig, from its character pos + 1, is the texts of parts in order, with nothing
\* but one run of spaces (maybe none) after each of them
RECURSIVE MatchFrom(_, _, _)
MatchFrom(orig, parts, pos) ==
    IF parts = <<>> THEN pos = Len(orig)
    ELSE LET t == Head(parts)
             end == pos + Len(t)
         IN  /\ end <= Len(orig)
             /\ SubSeq(orig, pos + 1, end) = t
             /\ LET next == IF AllSpaces(orig, end + 1, Len(orig)) THEN Len(orig)
                            ELSE (CHOOSE j \in (end + 1)..Len(orig) :
                                     /\ ~IsSpace(orig[j])
                                     /\ AllSpaces(orig, end + 1, j - 1)) - 1
                IN  MatchFrom(orig, Tail(parts), next)

\* C1 (as claimed): with the default numbering, every post returned by Split has at
\* most 300 graphemes, the numbering and its space included.
C1_WithinBudget ==
    (SplitReturned /\ Chosen.partFn = "default") =>
        \A k \in 1..Len(splitOut.posts) :
            GetGraphemeLength(splitOut.posts[k]) <= maxPostGraphemeLength

C3_ShortUnchanged ==
    (SplitDone /\ GetGraphemeLength(post) <= maxPostGraphemeLength) =>
        splitOut = [panicked |-> FALSE, posts |-> <<post>>]

\* C3 witness: a post of exactly 300 graphemes, split with a numbering option
C3_Witness ==
    /\ SplitDone
    /\ GetGraphemeLength(post) = maxPostGraphemeLength
    /\ options # <<>>
    /\ splitOut.posts = <<post>>

\* C4: post k of the n posts returned for an over-long post starts with f(k, n) and a
\* space (prefix mode) or ends with a space and f(k, n) (suffix mode), n being the
\* number of posts returned.
C4_Numbering ==
    (SplitReturned /\ WasSplit) =>
        \A k \in 1..Len(splitOut.posts) :
            LET t == GetPlainText(splitOut.posts[k])
            IN  IF Chosen.prefix THEN StartsWith(t, NumberingOf(k) \o <<" ">>)
                ELSE EndsWith(t, <<" ">> \o NumberingOf(k))

\* C4 witness: a split in more posts than the first bound assumed
C4_Witness ==
    /\ SplitReturned /\ WasSplit
    /\ Len(splitOut.posts) > firstMaxCount
    /\ StartsWith(GetPlainText(splitOut.posts[1]),
                  DefaultPartFunction(1, Len(splitOut.posts)) \o <<" ">>)

\* the most passes of the outer loop of groupBlocks that are looked at
MaxPasses == 3

\* the bound of pass k of groupBlocks, k from 0: 9, 99, 999, ...
RECURSIVE BoundOfPass(_)
BoundOfPass(k) == IF k = 0 THEN firstMaxCount ELSE BoundOfPass(k - 1) * 10 + 9

\* the groups that pass k packs the atoms of the post into
PackedInPass(k) ==
    Pack(splitBlocks(post.Blocks).output, Chosen.partFn, BoundOfPass(k))

\* pass k is the first one with no more groups than its bound
IsLastPass(k) ==
    /\ Len(PackedInPass(k)) <= BoundOfPass(k)
    /\ \A j \in 0..(k - 1) : Len(PackedInPass(j)) > BoundOfPass(j)

\* C19: the loop of groupBlocks that widens the bound (9, 99, 999, ...) ends, for
\* every over-long post and numbering function, at the first pass that packs no more
\* groups than its bound, and the posts returned are the groups of that pass.
C19_WideningEnds ==
    (SplitReturned /\ WasSplit) =>
        \E k \in 0..MaxPasses :
            /\ IsLastPass(k)
            /\ Len(splitOut.posts) <= BoundOfPass(k)
            /\ DenumberedTexts =
                   [g \in 1..Len(PackedInPass(k)) |-> BlocksText(PackedInPass(k)[g])]

\* C19 witness: the first pass packs more than 9 groups, and the pass under the
\* bound 99 packs more groups than the first one did
C19_Witness ==
    /\ SplitReturned /\ WasSplit
    /\ Len(PackedInPass(0)) > firstMaxCount
    /\ IsLastPass(1)
    /\ Len(splitOut.posts) > Len(PackedInPass(0))

\* the characters of the blocks in order, each with the link, mention or tag of
\* its block
RECURSIVE FeaturedChars(_)
FeaturedChars(blocks) ==
    IF blocks = <<>> THEN <<>>
    ELSE LET b == Head(blocks)
         IN  [i \in 1..Len(b.Text) |-> [b EXCEPT !.Text = <<b.Text[i]>>]]
                 \o FeaturedChars(Tail(blocks))

\* C20 (as claimed): for a post of any number of blocks that Split splits,
\* splitBlocks returns atoms whose texts, concatenated in order, are the plain text
\* of the post, every character with the link, mention or tag of the block it
\* comes from.
C20_AtomsKeepText ==
    (SplitDone /\ WasSplit) =>
        LET atoms == splitBlocks(post.Blocks)
        IN  /\ ~atoms.panicked
            /\ FeaturedChars(atoms.output) = FeaturedChars(post.Blocks)

\* the same for the posts of one block
C20_OneBlock ==
    (SplitDone /\ WasSplit /\ Len(post.Blocks) = 1) =>
        LET atoms == splitBlocks(post.Blocks)
        IN  /\ ~atoms.panicked
            /\ FeaturedChars(atoms.output) = FeaturedChars(post.Blocks)

\* a post of two blocks or more on which splitBlocks does not panic and loses text
C20_LosesText ==
    /\ SplitDone /\ WasSplit
    /\ ~splitBlocks(post.Blocks).panicked
    /\ Len(BlocksText(splitBlocks(post.Blocks).output)) < Len(GetPlainText(post))

\* a word atom: no whitespace, and no more than 100 codepoints (maybe none)
IsWordAtom(b) ==
    /\ \A j \in 1..Len(b.Text) : ~IsSpace(b.Text[j])
    /\ Len(b.Text) <= maxWordLength

\* a whitespace-run atom: nothing but whitespace (maybe nothing)
IsSpaceAtom(b) == \A j \in 1..Len(b.Text) : IsSpace(b.Text[j])

\* the atoms are a word, a run of spaces, a word, ..., from a word on
Alternates(atoms) ==
    \A j \in 1..Len(atoms) :
        IF j % 2 = 1 THEN IsWordAtom(atoms[j]) ELSE IsSpaceAtom(atoms[j])

\* C21 (as claimed): for a post of any number of blocks, the atoms that splitBlocks
\* returns alternate from a word atom on: the atoms at even positions (from 0) hold
\* no whitespace and at most 100 codepoints, those at odd positions only whitespace.
C21_AtomsAlternate ==
    (SplitDone /\ WasSplit /\ ~splitBlocks(post.Blocks).panicked) =>
        Alternates(splitBlocks(post.Blocks).output)

\* the same for the posts of one block
C21_OneBlock ==
    (SplitDone /\ WasSplit /\ Len(post.Blocks) = 1) =>
        Alternates(splitBlocks(post.Blocks).output)

\* the groups of the pass of groupBlocks whose packing is returned
FinalGroups == PackedInPass(CHOOSE k \in 0..MaxPasses : IsLastPass(k))

\* C22 (as claimed): in the packing groupBlocks returns, the first atom of every
\* group, before the numbering is added, is a word atom, for every post.
C22_GroupsStartWithWord ==
    (SplitReturned /\ WasSplit) =>
        \A g \in 1..Len(FinalGroups) : IsWordAtom(FinalGroups[g][1])

\* the same for the posts of one block
C22_OneBlock ==
    (SplitReturned /\ WasSplit /\ Len(post.Blocks) = 1) =>
        \A g \in 1..Len(FinalGroups) : IsWordAtom(FinalGroups[g][1])

\* the runs of equal characters of t from its character i on, each as the character
\* and the length of the run
RECURSIVE RunsFrom(_, _)
RunsFrom(t, i) ==
    IF i > Len(t) THEN <<>>
    ELSE LET next == IF \E j \in (i + 1)..Len(t) : t[j] # t[i]
                     THEN CHOOSE j \in (i + 1)..Len(t) :
                              t[j] # t[i] /\ \A k \in (i + 1)..(j - 1) : t[k] = t[i]
                     ELSE Len(t) + 1
         IN  <<[c |-> t[i], n |-> next - i]>> \o RunsFrom(t, next)

\* t, which is not empty, is a piece of o: its characters stand side by side in o
IsPieceOf(t, o) ==
    LET rt == RunsFrom(t, 1)
        ro == RunsFrom(o, 1)
        k == Len(rt)
    IN  \E j \in 0..(Len(ro) - k) :
            \A m \in 1..k :
                /\ ro[j + m].c = rt[m].c
                /\ IF m = 1 \/ m = k THEN ro[j + m].n >= rt[m].n
                   ELSE ro[j + m].n = rt[m].n

\* the block of returned post k that holds its numbering
NumberingBlock(k) ==
    LET bs == splitOut.posts[k].Blocks
    IN  IF Chosen.prefix THEN bs[1] ELSE bs[Len(bs)]

\* the blocks of returned post k without the numbering and the space beside it
OriginalBlocks(k) ==
    LET bs == splitOut.posts[k].Blocks
        m == Len(NumberingOf(k)) + 1
        at == IF Chosen.prefix THEN 1 ELSE Len(bs)
        cut == IF Chosen.prefix THEN SubSeq(bs[at].Text, m + 1, Len(bs[at].Text))
               ELSE SubSeq(bs[at].Text, 1, Len(bs[at].Text) - m)
    IN  IF cut = <<>> THEN [j \in 1..(Len(bs) - 1) |->
                               IF Chosen.prefix THEN bs[j + 1] ELSE bs[j]]
        ELSE [bs EXCEPT ![at].Text = cut]

\* C23: in every post of a split, the numbering and its space lie in a block that
\* has no link, mention or tag, and every other piece of text is a piece of a block
\* of the original post that has the same link, mention and tag (or none).
C23_FeaturesKept ==
    (SplitReturned /\ WasSplit) =>
        \A k \in 1..Len(splitOut.posts) :
            /\ NumberingBlock(k).Link = NilPtr
            /\ NumberingBlock(k).Mention = NilPtr
            /\ NumberingBlock(k).Tag = NilPtr
            /\ IF Chosen.prefix
               THEN StartsWith(NumberingBlock(k).Text, NumberingOf(k) \o <<" ">>)
               ELSE EndsWith(NumberingBlock(k).Text, <<" ">> \o NumberingOf(k))
            /\ \A j \in 1..Len(OriginalBlocks(k)) :
                   LET b == OriginalBlocks(k)[j]
                   IN  \E i \in 1..Len(post.Blocks) :
                           /\ post.Blocks[i].Link = b.Link
                           /\ post.Blocks[i].Mention = b.Mention
                           /\ post.Blocks[i].Tag = b.Tag
                           /\ IsPieceOf(b.Text, post.Blocks[i].Text)

\* C23 witness: a post of a split whose numbering stands right before a link: the
\* first block is the numbering and its space and nothing else, the second a link
C23_Witness ==
    /\ SplitReturned /\ WasSplit /\ Chosen.prefix
    /\ \E k \in 1..Len(splitOut.posts) :
           LET bs == splitOut.posts[k].Blocks
           IN  /\ Len(bs) >= 2
               /\ bs[1] = PlainBlock(NumberingOf(k) \o <<" ">>)
               /\ bs[2].Link # NilPtr

\* C27 (as claimed): when the post has more than 300 graphemes and Split numbers
\* what it returns, it returns two posts or more, never one post numbered 1 of 1.
C27_AtLeastTwoPosts ==
    (SplitReturned /\ WasSplit) => Len(splitOut.posts) >= 2

\* a post returned alone, numbered 1 of 1, and itself longer than 300 graphemes
C27_AloneAndTooLong ==
    /\ SplitReturned /\ WasSplit
    /\ Len(splitOut.posts) = 1
    /\ GetGraphemeLength(splitOut.posts[1]) > maxPostGraphemeLength

\* C5 (as claimed): Split returns a list of posts for every post; it never slices
\* out of range.
C5_NeverPanics == SplitDone => ~splitOut.panicked

-----------------------------------------------------------------------------
(* The construction API: what the claims speak of *)

AppendOps == {"AddText", "AddLink", "AddMention", "AddTag", "AddBlock"}

FeaturesOf(b) == <<b.Link, b.Mention, b.Tag>>

FeatureCount(b) == Cardinality({i \in 1..3 : ~IsNil(FeaturesOf(b)[i])})

\* the feature of one kind that the arguments of an append ask for: the last one
\* given of that kind, none when it is the empty string
Given(features, kind) ==
    LET at == {i \in DOMAIN features : features[i][1] = kind}
    IN  IF at = {} THEN NilPtr
        ELSE LET v == features[CHOOSE i \in at : \A j \in at : j <= i][2]
             IN  IF v = "" THEN NilPtr ELSE Ptr(v)

GivenFeatures(op) ==
    <<Given(op.features, "link"), Given(op.features, "mention"), Given(op.features, "tag")>>

\* the step is an append of a text that is not empty
IsAppend == lastOp'.op \in AppendOps /\ lastOp'.text # <<>>

NoAdjacentSame ==
    \A i \in 1..(Len(post.Blocks) - 1) :
        FeaturesOf(post.Blocks[i]) # FeaturesOf(post.Blocks[i + 1])

AppendMerges ==
    LET n == Len(post.Blocks)
        feat == GivenFeatures(lastOp')
    IN  (IsAppend /\ n > 0) =>
            IF FeaturesOf(post.Blocks[n]) = feat
            THEN post'.Blocks = [post.Blocks EXCEPT ![n].Text = @ \o lastOp'.text]
            ELSE /\ Len(post'.Blocks) = n + 1
                 /\ SubSeq(post'.Blocks, 1, n) = post.Blocks
                 /\ post'.Blocks[n + 1].Text = lastOp'.text
                 /\ FeaturesOf(post'.Blocks[n + 1]) = feat

\* C6: no two adjacent blocks of a post have the same features (a feature given as
\* the empty string being no feature); an append whose features are those of the last
\* block adds its text to that block, any other append adds a block.
C6_MergeAdjacent == []NoAdjacentSame /\ [][AppendMerges]_vars

\* C6 witness: an append with a feature that went into the last block
C6_Witness ==
    /\ lastOp.op \in {"AddLink", "AddMention", "AddTag"}
    /\ lastOp.text # <<>>
    /\ Len(post.Blocks) = 2
    /\ FeatureCount(post.Blocks[2]) = 1
    /\ FeaturesOf(post.Blocks[2]) = GivenFeatures(lastOp)
    /\ Len(post.Blocks[2].Text) > Len(lastOp.text)

\* C7 (as claimed): every block of a post built through the construction API has at
\* most one of the features link, mention and tag.
C7_AtMostOneFeature ==
    \A i \in 1..Len(post.Blocks) : FeatureCount(post.Blocks[i]) <= 1

\* C7 (amended): the block an append writes to has the features the append was given,
\* the empty ones left out: at most one after AddText, AddLink, AddMention or AddTag,
\* and all of them, two or three at once too, after NewBlock with several features
\* and AddBlock.
C7_FeaturesAsGiven ==
    [][IsAppend =>
         LET last == post'.Blocks[Len(post'.Blocks)]
         IN  /\ FeaturesOf(last) = GivenFeatures(lastOp')
             /\ lastOp'.op # "AddBlock" => FeatureCount(last) <= 1]_vars

\* C7 witness: a block with two features or more, appended by AddBlock
C7_Witness ==
    /\ lastOp.op = "AddBlock"
    /\ lastOp.text # <<>>
    /\ Len(post.Blocks) > 0
    /\ FeatureCount(post.Blocks[Len(post.Blocks)]) >= 2

NoEmptyBlock == \A i \in 1..Len(post.Blocks) : post.Blocks[i].Text # <<>>

\* C8: an append of an empty text, with or without features, changes nothing of the
\* post, and no block of a post has an empty text.
C8_EmptyAppendNoOp ==
    /\ []NoEmptyBlock
    /\ [][(lastOp'.op \in AppendOps /\ lastOp'.text = <<>>) => post' = post]_vars

\* C8 witness: an empty text appended with a feature to a post that has blocks, a
\* creation time and a language
C8_Witness ==
    /\ lastOp.op \in AppendOps
    /\ lastOp.text = <<>>
    /\ GivenFeatures(lastOp) # <<NilPtr, NilPtr, NilPtr>>
    /\ Len(post.Blocks) > 0
    /\ ~IsNil(post.CreationTime)
    /\ post.Languages # <<>>

-----------------------------------------------------------------------------
(* Import: what the claims speak of *)

ImportSteps == {"sortFound", "skip", "resolve", "return"}

IsAccepted(o) == ~IsNil(o.answer)

\* the candidates accepted so far, in the order they were accepted
Accepted == SelectSeq(offered, IsAccepted)

\* candidate k of the pool was handed to its resolver
WasOffered(k) == \E i \in DOMAIN offered : offered[i].f = found[k]

\* candidate j of the pool was accepted
WasAccepted(j) == \E i \in DOMAIN offered : offered[i].f = found[j] /\ IsAccepted(offered[i])

NoOverlap ==
    \A i, j \in DOMAIN Accepted : i < j => Accepted[i].f.end <= Accepted[j].f.start

\* an iteration whose candidate starts before the cursor offers nothing and changes
\* neither the post nor the cursor
SkipStep ==
    (InLoop /\ found[idx].start < p) =>
        /\ offered' = offered
        /\ post' = post
        /\ p' = p
        /\ idx' = idx + 1

\* what is accepted goes to the end of the output, after what was there
AcceptStep ==
    (lastOp'.op = "resolve" /\ IsAccepted(lastOp')) =>
        /\ lastOp'.f.start >= p
        /\ GetPlainText(post') =
               GetPlainText(post) \o Slice(text, p, lastOp'.f.start)
                   \o (IF lastOp'.f.what = webUrl THEN Deref(lastOp'.answer).shown
                       ELSE Slice(text, lastOp'.f.start, lastOp'.f.end))
        /\ p' = lastOp'.f.end

\* C9: in Import a candidate that starts before the cursor (the end of the last
\* accepted candidate) is skipped and never handed to its resolver; the accepted
\* spans do not overlap each other and are written to the output in the order of
\* their starts.
C9_SkipsBeforeCursor ==
    /\ []NoOverlap
    /\ [](\A i \in DOMAIN offered : \A j \in DOMAIN Accepted :
              (Accepted[j].f.start < offered[i].f.start)
                  => Accepted[j].f.end <= offered[i].f.start)
    /\ [][SkipStep]_vars
    /\ [][AcceptStep]_vars

\* C9 witness: two candidates accepted and then one skipped, which starts inside the
\* last accepted one
C9_Witness ==
    /\ lastOp.op = "skip"
    /\ Len(Accepted) >= 2
    /\ Accepted[Len(Accepted)].f.start < lastOp.f.start
    /\ lastOp.f.start < Accepted[Len(Accepted)].f.end

\* a candidate the resolver declined: nothing written, the cursor where it was
DeclineStep ==
    (lastOp'.op = "resolve" /\ ~IsAccepted(lastOp')) => (post' = post /\ p' = p)

\* when Import returns, the candidates that were offered are those that start at or
\* after the end of every candidate accepted before them: a declined one hides none
OfferedUnlessCovered ==
    lastOp.op = "return" =>
        \A k \in DOMAIN found :
            WasOffered(k) <=>
                \A j \in 1..(k - 1) : WasAccepted(j) => found[j].end <= found[k].start

\* C10: when its resolver declines a candidate, the cursor and the output stay as
\* they were, and every later candidate that starts at or after the cursor is still
\* handed to its resolver, one inside the span of the declined candidate too.
C10_DeclineKeepsCursor ==
    /\ [][DeclineStep]_vars
    /\ []OfferedUnlessCovered

\* C10 witness: a link accepted inside the span of a handle that was declined
C10_Witness ==
    /\ lastOp.op = "return"
    /\ \E i, j \in DOMAIN offered :
        /\ i < j
        /\ offered[i].f.what = username /\ ~IsAccepted(offered[i])
        /\ offered[j].f.what = webUrl /\ IsAccepted(offered[j])
        /\ offered[i].f.start < offered[j].f.start
        /\ offered[j].f.end <= offered[i].f.end
        /\ \E b \in 1..Len(post.Blocks) : post.Blocks[b].Link = Ptr("u1")

\* the text Import is to give for the candidates acc accepted, from position pos
\* of the input on: the input, each accepted link replaced by what the formatter
\* gave for it
RECURSIVE Rebuilt(_, _)
Rebuilt(acc, pos) ==
    IF acc = <<>> THEN Slice(text, pos, Len(text))
    ELSE LET a == Head(acc)
         IN  Slice(text, pos, a.f.start)
                 \o (IF a.f.what = webUrl THEN Deref(a.answer).shown
                     ELSE Slice(text, a.f.start, a.f.end))
                 \o Rebuilt(Tail(acc), a.f.end)

ImportReturned == lastOp.op = "return"

PlainTextRebuilt == ImportReturned => GetPlainText(post) = Rebuilt(Accepted, 0)

\* the accepted candidates of one kind whose answer is not the empty string
AcceptedOf(what) ==
    {i \in DOMAIN Accepted : Accepted[i].f.what = what /\ Deref(Accepted[i].answer) # ""}

\* block b holds the source text of one accepted candidate of the kind
IsOneMatch(b, what) ==
    \E i \in AcceptedOf(what) :
        b.Text = Slice(text, Accepted[i].f.start, Accepted[i].f.end)

\* block b holds the source text of accepted candidates i..j of the kind, which
\* follow each other in the input with nothing between them and have one answer
IsMatchRun(b, what) ==
    \E i, j \in AcceptedOf(what) :
        /\ i <= j
        /\ \A k \in i..j : k \in AcceptedOf(what) /\ Accepted[k].answer = Accepted[i].answer
        /\ \A k \in i..(j - 1) : Accepted[k].f.end = Accepted[k + 1].f.start
        /\ b.Text = Slice(text, Accepted[i].f.start, Accepted[j].f.end)
        /\ b.Mention = (IF what = username THEN Accepted[i].answer ELSE NilPtr)
        /\ b.Tag = (IF what = tag THEN Accepted[i].answer ELSE NilPtr)

-----------------------------------------------------------------------------
(* The converter and its clock: what the claims speak of *)

Converted == lastOp.op = "ToFeedPost"

\* the bytes of a text in UTF-8, each as the character it is of and its place in it
RECURSIVE Bytes(_)
Bytes(t) ==
    IF t = <<>> THEN <<>>
    ELSE [k \in 1..ByteLen(Head(t)) |-> <<Head(t), k>>] \o Bytes(Tail(t))

HasFeature(b) ==
    \/ ~IsNil(b.Link) /\ Deref(b.Link) # ""
    \/ ~IsNil(b.Mention) /\ Deref(b.Mention) # ""
    \/ ~IsNil(b.Tag) /\ Deref(b.Tag) # ""

\* the blocks of the post that have a feature, by their place in the post, in order
FeaturedBlocks == SelectSeq([i \in 1..Len(post.Blocks) |-> i], LAMBDA i : HasFeature(post.Blocks[i]))

\* the bytes of the blocks before block i
BytesBefore(i) == Len(Bytes(BlocksText(SubSeq(post.Blocks, 1, i - 1))))

\* C12: ToFeedPost gives one facet for each block with a feature, in the order of
\* the blocks; its ByteStart is the number of bytes of the blocks before it, with or
\* without feature, its ByteEnd is ByteStart plus the bytes of the block, and the
\* bytes of Text between the two are the text of the block.
C12_FacetOffsets ==
    Converted =>
        /\ Len(feed.Facets) = Len(FeaturedBlocks)
        /\ \A k \in 1..Len(feed.Facets) :
              LET facet == feed.Facets[k]
                  block == post.Blocks[FeaturedBlocks[k]]
              IN  /\ facet.ByteStart = BytesBefore(FeaturedBlocks[k])
                  /\ facet.ByteEnd = facet.ByteStart + Len(Bytes(block.Text))
                  /\ SubSeq(Bytes(feed.Text), facet.ByteStart + 1, facet.ByteEnd)
                         = Bytes(block.Text)
                  /\ \A f \in {"link", "mention", "tag"} :
                        (\E e \in 1..Len(facet.Features) : facet.Features[e][1] = f)
                            <=> (LET a == IF f = "link" THEN block.Link
                                          ELSE IF f = "mention" THEN block.Mention
                                          ELSE block.Tag
                                 IN  ~IsNil(a) /\ Deref(a) # "")

\* C12 witness: a block of two bytes for one character and without feature, then a
\* block with a feature, whose facet starts after those bytes
C12_Witness ==
    /\ Converted
    /\ Len(post.Blocks) >= 2
    /\ ~HasFeature(post.Blocks[1])
    /\ HasFeature(post.Blocks[2])
    /\ Len(feed.Facets) = 1
    /\ feed.Facets[1].ByteStart > Len(post.Blocks[1].Text)

\* the conversions for which the clock was read, in order
ClockReads == SelectSeq(convLog, LAMBDA e : e.read)

\* C13: whatever the clock under it shows from one call to the next (the same time,
\* a time less than a millisecond later, an earlier time), each Now() of the
\* increasing clock returns a time at least one millisecond after the one before.
C13_StrictlyIncreasing ==
    \A i \in 1..(Len(ClockReads) - 1) :
        ClockReads[i + 1].time >= ClockReads[i].time + Millisecond

\* C13 witness: three calls, the clock under it showing the same time at the second
\* call and an earlier one at the third
C13_Witness ==
    /\ Len(ClockReads) = 3
    /\ ClockReads[1].parentNow > 0
    /\ ClockReads[2].parentNow = ClockReads[1].parentNow
    /\ ClockReads[3].parentNow < ClockReads[2].parentNow

\* the times a new increasing clock returns for the readings given, in order
RECURSIVE Replay(_, _)
Replay(c, readings) ==
    IF readings = <<>> THEN <<>>
    ELSE <<Now(c, Head(readings)).time>>
             \o Replay(Now(c, Head(readings)).clock, Tail(readings))

\* a conversion of a post that has a creation time
SetStep == lastOp'.op = "ToFeedPost" /\ ~IsNil(post'.CreationTime)

\* C14: for a post that has a creation time ToFeedPost gives that time and neither
\* reads nor moves the clock of the converter; the times given to the posts without
\* one are those the clock would give had the posts with one never been converted.
C14_CreationTimeKept ==
    /\ [][SetStep => /\ feed'.CreatedAt = Format(Deref(post'.CreationTime))
                     /\ clock' = clock
                     /\ ~convLog'[Len(convLog')].read]_vars
    /\ [](Replay(NewIncreasingClock, [i \in 1..Len(ClockReads) |-> ClockReads[i].parentNow])
              = [i \in 1..Len(ClockReads) |-> ClockReads[i].time])

\* C14 witness: a post without creation time converted after one with a creation
\* time, after one without
C14_Witness ==
    /\ Converted
    /\ Len(convLog) = 3
    /\ convLog[1].read /\ ~convLog[2].read /\ convLog[3].read
    /\ feed.CreatedAt = Format(convLog[3].time)

-----------------------------------------------------------------------------
(* The multiposter: what the claims speak of *)

\* the result the client gave for the j-th post it published
ResultOf(j) == [Uri |-> fake.posts[j].uri, Cid |-> fake.posts[j].cid]

\* the texts of the posts the client was called with, in the order of the calls
CalledTexts == [c \in 1..Len(fake.calls) |-> fake.calls[c].post.Text]

\* C15: Publish hands the posts to the client one by one in the order of the list.
\* When the client fails on post k, no later post is handed to it, Published has the
\* results of posts 1..k-1 in order, Remaining has posts k..n in order and Error is
\* the error of the client; when no post fails, Published has the results of all the
\* posts, Remaining is empty and Error is nil.
C15_PublishStopsAtFailure ==
    lastOp.op = "Publish" =>
        LET n == Len(pubPosts)
            calls == Len(fake.calls)
        IN  /\ CalledTexts = [c \in 1..calls |-> pubPosts[c].Text]
            /\ IF \E c \in 1..calls : ~fake.calls[c].ok
               THEN /\ ~fake.calls[calls].ok
                    /\ \A c \in 1..(calls - 1) : fake.calls[c].ok
                    /\ pubResult.Published = [j \in 1..(calls - 1) |-> ResultOf(j)]
                    /\ pubResult.Remaining = SubSeq(pubPosts, calls, n)
                    /\ pubResult.Error = Ptr(errPublish)
               ELSE /\ calls = n
                    /\ pubResult.Published = [j \in 1..n |-> ResultOf(j)]
                    /\ pubResult.Remaining = <<>>
                    /\ IsNil(pubResult.Error)

\* C15 witness: the client failed on the second post of three
C15_Witness ==
    /\ lastOp.op = "Publish"
    /\ Len(pubPosts) = 3
    /\ Len(fake.calls) = 2
    /\ ~IsNil(pubResult.Error)
    /\ Len(pubResult.Published) = 1
    /\ Len(pubResult.Remaining) = 2

\* a call failed, and the last Resume went to the end of the list
ResumedToTheEnd ==
    /\ lastOp.op = "Resume"
    /\ IsNil(pubResult.Error)
    /\ \E c \in 1..Len(fake.calls) : ~fake.calls[c].ok

\* Publish of the same posts by the same multiposter with a client that never fails
Uninterrupted ==
    doPublish(mposter, pubPosts, <<>>, [posts |-> <<>>, failAfter |-> -1, calls |-> <<>>])

\* C16: when Publish fails at some post and a Resume on the result then goes
\* through, the result is the one of a Publish that nothing interrupted (the results
\* of all the posts in order, nothing remaining, no error), and the client has
\* published every post once and in the order of the list.
C16_ResumeCompletes ==
    ResumedToTheEnd =>
        /\ pubResult = Uninterrupted.result
        /\ pubResult.Published = [j \in 1..Len(pubPosts) |-> ResultOf(j)]
        /\ pubResult.Remaining = <<>>
        /\ fake.posts = Uninterrupted.client.posts
        /\ [j \in 1..Len(fake.posts) |-> fake.posts[j].post.Text]
               = [j \in 1..Len(pubPosts) |-> pubPosts[j].Text]

\* C16 witness: three posts, the second failed at Publish and was published, with
\* the third, by Resume
C16_Witness ==
    /\ ResumedToTheEnd
    /\ resumes = 1
    /\ Len(pubPosts) = 3
    /\ Len(fake.calls) = 4
    /\ ~fake.calls[2].ok

\* the number of posts the client had published before its call c
PublishedBefore(c) == Cardinality({d \in 1..(c - 1) : fake.calls[d].ok})

\* the reply reference of a post of the thread after the first published one
ThreadReply(c) ==
    Ptr([Parent |-> ResultOf(PublishedBefore(c)), Root |-> ResultOf(1)])

\* the post of the list that the client was called with at its call c
GivenAt(c) == pubPosts[PublishedBefore(c) + 1]

LaterPostsReply ==
    \A c \in 1..Len(fake.calls) :
        PublishedBefore(c) > 0 =>
            fake.calls[c].post = [GivenAt(c) EXCEPT !.Reply = ThreadReply(c)]

\* C17 (as claimed): in a thread the first post is handed to the client without
\* reply reference, and every later post with Parent the result of the post
\* published just before it and Root the result of the first post published, in
\* Publish and in Resume alike.
C17_ThreadReplies ==
    mposter.threaded =>
        /\ LaterPostsReply
        /\ \A c \in 1..Len(fake.calls) :
              PublishedBefore(c) = 0 => IsNil(fake.calls[c].post.Reply)

\* C17 (amended): in a thread the first post is handed to the client as it was
\* given, with the reply reference its caller set if there is one; every later post
\* is handed over with Parent the result of the post published just before it and
\* Root the result of the first post published, whatever reference it came with, in
\* Publish and in Resume alike.
C17_ThreadRepliesAsGiven ==
    mposter.threaded =>
        /\ LaterPostsReply
        /\ \A c \in 1..Len(fake.calls) :
              PublishedBefore(c) = 0 => fake.calls[c].post = GivenAt(c)

\* C17 witness: a thread of three posts, the first one a reply to another post; the
\* third is published by Resume with the first as root and the second as parent
C17_Witness ==
    /\ mposter.threaded
    /\ ResumedToTheEnd
    /\ Len(pubPosts) = 3
    /\ Len(fake.calls) = 4
    /\ fake.calls[1].post.Reply = OtherReply
    /\ ~fake.calls[3].ok
    /\ fake.calls[4].post.Reply =
           Ptr([Parent |-> [Cid |-> cidOf(1), Uri |-> uriOf(1)],
                Root |-> [Cid |-> cidOf(0), Uri |-> uriOf(0)]])

\* C29: after a Publish and any number of calls of Resume, each on the result of the
\* call before and each failing at any post or at none, Published and Remaining
\* together are as many as the posts given to Publish, Published[i] is the result
\* of the client for post i of them, Remaining is the posts after those, and the
\* client has published no post twice.
C29_ChainOfResumes ==
    lastOp.op \in {"Publish", "Resume"} =>
        LET n == Len(pubPosts)
            done == Len(pubResult.Published)
        IN  /\ done + Len(pubResult.Remaining) = n
            /\ Len(fake.posts) = done
            /\ \A i \in 1..done :
                  /\ pubResult.Published[i] = ResultOf(i)
                  /\ fake.posts[i].post.Text = pubPosts[i].Text
            /\ pubResult.Remaining = SubSeq(pubPosts, done + 1, n)
            /\ \A i, j \in 1..Len(fake.posts) :
                  fake.posts[i].post.Text = fake.posts[j].post.Text => i = j

\* C29 witness: Publish failed on the second post of three, the first Resume failed
\* on it again and the second Resume published it and failed on the third
C29_Witness ==
    /\ lastOp.op = "Resume"
    /\ resumes = 2
    /\ Len(pubPosts) = 3
    /\ Len(fake.calls) = 5
    /\ ~fake.calls[2].ok /\ ~fake.calls[3].ok /\ fake.calls[4].ok /\ ~fake.calls[5].ok
    /\ Len(pubResult.Published) = 2
    /\ Len(pubResult.Remaining) = 1
    /\ ~IsNil(pubResult.Error)

-----------------------------------------------------------------------------
(* The client: what the claims speak of *)

\* the token is a JWT that expires within the five seconds to come, or ""
ExpiresSoon(jwtString) ==
    \/ jwtString.form = "empty"
    \/ /\ jwtString.form = "jwt"
       /\ ~IsNil(jwtString.exp)
       /\ Deref(jwtString.exp) < wallTime + Margin

\* the token is a JWT that does not
StaysValid(jwtString) == jwtString.form = "jwt" /\ ~ExpiresSoon(jwtString)

GetsToken == lastOp'.op = "GetAccessToken"

\* C18: GetAccessToken calls the server only when it has to: not at all when the
\* access token it holds does not expire within five seconds; once, with
\* refreshSession, when the access token has expired and the refresh token has not;
\* once, with createSession, the identifier and the password, when it holds no
\* tokens or both have expired.
C18_TokenCalls ==
    [][GetsToken =>
         /\ (~IsNil(session) /\ StaysValid(Deref(session).AccessJwt))
                => (serverCalls' = <<>> /\ session' = session /\ ~lastOp'.err)
         /\ (~IsNil(session) /\ ExpiresSoon(Deref(session).AccessJwt)
                /\ StaysValid(Deref(session).RefreshJwt))
                => (Len(serverCalls') = 1 /\ serverCalls'[1].Method = "refreshSession")
         /\ (IsNil(session) \/ (ExpiresSoon(Deref(session).AccessJwt)
                                   /\ ExpiresSoon(Deref(session).RefreshJwt)))
                => serverCalls' = <<[Method |-> "createSession",
                                     Identifier |-> identifier, Password |-> password]>>
      ]_vars

\* C18 witness: the access token has expired, the refresh token has not, and the
\* server gave new tokens for it
C18_Witness ==
    /\ lastOp.op = "GetAccessToken"
    /\ ~lastOp.err
    /\ Len(serverCalls) = 1
    /\ serverCalls[1].Method = "refreshSession"
    /\ serverCalls[1].Jwt.use = "refresh"
    /\ StaysValid(Deref(session).AccessJwt)

\* the call of GetAccessToken of this step made a refreshSession call that failed
RefreshFails ==
    /\ GetsToken
    /\ Len(serverCalls') = 1
    /\ serverCalls'[1].Method = "refreshSession"
    /\ lastOp'.err

\* C28 (as claimed): when the refreshSession call of GetAccessToken fails,
\* GetAccessToken returns an error and the stored access and refresh tokens are as
\* they were before the call.
C28_FailedRefreshKeepsTokens ==
    [][RefreshFails => session' = session]_vars

\* after a refreshSession call that failed, GetAccessToken has returned without an
\* error and without a call of the server, and the stored access token is the
\* refresh token
C28_SuccessWithoutToken ==
    /\ lastOp.op = "GetAccessToken"
    /\ ~lastOp.err
    /\ serverCalls = <<>>
    /\ ~IsNil(session)
    /\ Deref(session).AccessJwt.use = "refresh"

-----------------------------------------------------------------------------
(* The pool of the importer: what the claims speak of *)

\* Import has found and sorted its pool
PoolFound == lastOp.op \in ImportSteps

\* Import has just done so, and goes on to its loop
PoolJustFound == lastOp.op = "sortFound"

Pool == {found[i] : i \in DOMAIN found}

\* the matches of a pattern in the text, each as <<start, end>>
MatchesOf(re) ==
    LET ms == FindAllStringIndex(text, re, 0) IN {ms[i] : i \in DOMAIN ms}

\* the candidates of the matches of a pattern, taken whole
WholeMatches(re, what) ==
    {[start |-> m[1], end |-> m[2], what |-> what] : m \in MatchesOf(re)}

\* the candidates of the matches of a pattern, each up to its last character that
\* is none of . , ) ? ! -- and none for a match that has no such character
StrippedMatches(re, what) ==
    UNION {{[start |-> m[1], end |-> e, what |-> what] :
               e \in {e \in (m[1] + 1)..m[2] :
                         /\ ~isPunctuation(text[e])
                         /\ \A j \in (e + 1)..m[2] : isPunctuation(text[j])}} :
           m \in MatchesOf(re)}

\* C24 (as claimed): the characters . , ) ? ! are taken from the end of the URL
\* matches only; the username and hashtag matches enter the pool whole.
C24_UrlsOnlyStripped ==
    PoolJustFound =>
        Pool = StrippedMatches("fullUrlRe", webUrl) \cup StrippedMatches("shortUrlRe", webUrl)
               \cup WholeMatches("usernameRe", username) \cup WholeMatches("hashtagRe", tag)

\* C24 (amended): the characters . , ) ? ! are taken from the end of the matches of
\* every pattern, one at a time until the last character is none of them, and a
\* match with nothing left is dropped: the pool is the matches of the four patterns
\* cut this way.
C24_AllStripped ==
    PoolJustFound =>
        Pool = StrippedMatches("fullUrlRe", webUrl) \cup StrippedMatches("shortUrlRe", webUrl)
               \cup StrippedMatches("usernameRe", username)
               \cup StrippedMatches("hashtagRe", tag)

\* C24 witness: a hashtag match that ends in two or more of these characters is in
\* the pool without them
C24_Witness ==
    /\ PoolJustFound
    /\ \E f \in Pool : \E m \in MatchesOf("hashtagRe") :
           /\ f.what = tag
           /\ f.start = m[1]
           /\ f.end + 2 <= m[2]

\* the place of a kind among the kinds: URL, then username, then hashtag
KindRank(what) ==
    CASE what = webUrl -> 1
      [] what = username -> 2
      [] what = tag -> 3

\* candidate a goes before candidate b: by start, then by end, then by kind
GoesBefore(a, b) ==
    \/ a.start < b.start
    \/ a.start = b.start /\ a.end < b.end
    \/ a.start = b.start /\ a.end = b.end /\ KindRank(a.what) < KindRank(b.what)

Overlap(a, b) == a.start < b.end /\ b.start < a.end

\* the pool is in order
PoolInOrder ==
    PoolFound => \A i, j \in DOMAIN found : i < j => ~GoesBefore(found[j], found[i])

\* the candidates are handed to the resolvers in the order of the pool
OfferedInOrder ==
    \A i, j \in DOMAIN offered : i < j => ~GoesBefore(offered[j].f, offered[i].f)

\* a candidate that overlaps an accepted one was handed to its resolver before it
\* and declined, or not handed to its resolver at all
FirstAcceptedWins ==
    \A i \in DOMAIN offered :
        IsAccepted(offered[i]) =>
            \A j \in DOMAIN offered \ {i} :
                Overlap(offered[i].f, offered[j].f) => (j < i /\ ~IsAccepted(offered[j]))

\* C25: Import hands the candidates of the pool to the resolvers by ascending
\* start, then ascending end, then kind (URL, username, hashtag); of candidates that
\* overlap, the first in this order that its resolver accepts is converted, and no
\* other one is.
C25_OrderOfCandidates ==
    /\ []PoolInOrder
    /\ []OfferedInOrder
    /\ []FirstAcceptedWins
    /\ [][AcceptStep]_vars

\* C25 witness: of three candidates that overlap, a handle, a URL and a hashtag, the
\* handle was declined, the URL accepted and the hashtag not offered
C25_Witness ==
    /\ ImportReturned
    /\ \E i, j \in DOMAIN offered : \E k \in DOMAIN found :
        /\ i < j
        /\ offered[i].f.what = username /\ ~IsAccepted(offered[i])
        /\ offered[j].f.what = webUrl /\ IsAccepted(offered[j])
        /\ found[k].what = tag /\ ~WasOffered(k)
        /\ Overlap(offered[i].f, offered[j].f)
        /\ Overlap(offered[j].f, found[k])

-----------------------------------------------------------------------------
(* The resolvers: what the claims speak of *)

\* C26 (as claimed): a resolver of the package never fails, it returns nil for "no
\* match"; NetworkUrlResolver returns nil for every string for which
\* DefaultUrlResolver returns nil.
C26_ResolversNeverFail ==
    /\ ~resolverCall.panicked
    /\ (resolverCall.resolver = "NetworkUrlResolver"
           /\ IsNil(DefaultUrlResolver(resolverCall.input)))
          => IsNil(resolverCall.out)

\* the same for the other resolvers of the package
C26_OtherResolvers ==
    resolverCall.resolver # "NetworkUrlResolver" => ~resolverCall.panicked

\* the same for NetworkUrlResolver on the strings DefaultUrlResolver resolves
C26_NetworkOnUrls ==
    (resolverCall.resolver = "NetworkUrlResolver"
        /\ ~IsNil(DefaultUrlResolver(resolverCall.input)))
       => ~resolverCall.panicked

-----------------------------------------------------------------------------
(* The HTML importer: what the claims speak of *)

\* the nodes without the ignored elements and what they hold, at every depth
RECURSIVE RemoveIgnored(_)
RemoveIgnored(nodes) ==
    IF nodes = <<>> THEN <<>>
    ELSE LET n == Head(nodes)
             rest == RemoveIgnored(Tail(nodes))
         IN  IF n.Type = "element" /\ n.Tag \in IgnoredTags THEN rest
             ELSE <<[n EXCEPT !.Children = RemoveIgnored(@)]>> \o rest

\* C30: an ignored element has no effect on the output at any depth: the post
\* of a document is the post of the same document without its ignored elements
\* and what they hold, so what is ignored neither appears nor changes the spaces
\* and the line breaks around it
C30_IgnoredHasNoEffect ==
    lastOp.op = "HtmlImport" => post = HtmlImport(RemoveIgnored(htmlDoc))

====
